---- MODULE Spec2Model ----
(***************************************************************************)
(* A model of the agent workflows and tool functions of the ADK course     *)
(* exercises (Day1, Day2).  The repository configures objects of the       *)
(* google.adk runtime; the runtime's scheduling of those objects is        *)
(* written out here next to the configuration that selects it:             *)
(*   - SequentialAgent runs its sub_agents once each, in list order;       *)
(*   - LoopAgent re-runs its sub_agent list while times_looped is below    *)
(*     max_iterations and returns early only when an event of a sub-agent  *)
(*     carries actions.escalate;                                           *)
(*   - ParallelAgent runs its sub_agents concurrently and completes when   *)
(*     every one of them has completed;                                    *)
(*   - an Agent with an output_key stores the text of its final response   *)
(*     under that key of the session state.                                *)
(* The language model behind an agent is an environment: its outputs are   *)
(* drawn from small sets, constrained only by the agent's instruction.     *)
(***************************************************************************)
EXTENDS Integers, Sequences, FiniteSets, TLC

VARIABLES
    story_pc,        \* StoryPipeline: the sub-agent that runs next, or "done"
    times_looped,    \* StoryRefinementLoop: completed iterations
    story_state,     \* StoryPipeline: the session state (key -> value)
    story_events,    \* StoryPipeline: one record per agent turn, in order
    tool_call,       \* direct tool call: <<>> or <<[tool, count, text, confirmation]>>
    tool_result,     \* direct tool call: <<>> or <<the returned dict>>
    tool_requests,   \* direct tool call: request_confirmation calls it made
    fn_call,         \* plain function tool: <<>> or <<[tool, args]>>
    fn_result,       \* plain function tool: <<>> or <<what the call did>>
    gate_calls,      \* resumable runner: the gated tool calls made so far
    wf_pc,           \* run_image_generation_workflow: position in the function
    wf_args,         \* its arguments interactive and auto_approve
    wf_session,      \* the session_id it generated
    wf_events,       \* all_events
    wf_approval_info, \* approval_info: <<>> for None, else <<the dict>>
    wf_approved,     \* approved: <<>> while unbound, else <<the decision>>
    wf_inputs,       \* what has been typed at the input() prompt, in order
    wf_runs,         \* the image_runner.run_async calls made, in order
    wf_gates,        \* the session's generate_images_with_approval calls
    wf_displayed,    \* how often extract_and_display_images has run
    chk_events,      \* a caller of check_for_approval: the events it collected
    chk_result,      \* <<>>, or <<[fn, given, ret]>> once it has called
    coord_pc,        \* ResearchCoordinator: "start", "model", "done" or "failed"
    coord_follows,   \* whether its model keeps to the steps of its instruction
    coord_state,     \* ResearchCoordinator: the session state (key -> value)
    coord_log,       \* ResearchCoordinator: the tool calls and the response
    blog_pc,         \* BlogPipeline: the sub-agent that runs next, or "done"
    blog_state,      \* BlogPipeline: the session state (key -> value)
    blog_log,        \* BlogPipeline: one record per agent turn, in order
    research_pc,     \* ResearchSystem: the sub-agent that runs, or "done"
    branch,          \* ParallelResearchTeam: each researcher's progress
    research_state,  \* ResearchSystem: the session state (key -> value)
    research_log     \* ResearchSystem: the agents in the order they finished,
                     \* each with the keys the state held when it started

story_vars == <<story_pc, times_looped, story_state, story_events>>

tool_vars == <<tool_call, tool_result, tool_requests>>

fn_vars == <<fn_call, fn_result>>

gate_vars == <<gate_calls>>

wf_vars == <<wf_pc, wf_args, wf_session, wf_events, wf_approval_info,
             wf_approved, wf_inputs, wf_runs, wf_gates, wf_displayed>>

research_vars == <<research_pc, branch, research_state, research_log>>

blog_vars == <<blog_pc, blog_state, blog_log>>

chk_vars == <<chk_events, chk_result>>

coord_vars == <<coord_pc, coord_follows, coord_state, coord_log>>

vars == <<story_vars, tool_vars, fn_vars, gate_vars, wf_vars, research_vars,
          blog_vars, chk_vars, coord_vars>>

\* what a step of one example leaves alone: the state of the other examples
not_story == <<tool_vars, fn_vars, gate_vars, wf_vars, research_vars,
    blog_vars, chk_vars, coord_vars>>

not_tool == <<story_vars, fn_vars, gate_vars, wf_vars, research_vars,
    blog_vars, chk_vars, coord_vars>>

not_fn == <<story_vars, tool_vars, gate_vars, wf_vars, research_vars,
    blog_vars, chk_vars, coord_vars>>

not_gate == <<story_vars, tool_vars, fn_vars, wf_vars, research_vars,
    blog_vars, chk_vars, coord_vars>>

not_wf == <<story_vars, tool_vars, fn_vars, gate_vars, research_vars,
    blog_vars, chk_vars, coord_vars>>

not_blog == <<story_vars, tool_vars, fn_vars, gate_vars, wf_vars, research_vars,
    chk_vars, coord_vars>>

not_chk == <<story_vars, tool_vars, fn_vars, gate_vars, wf_vars, research_vars,
    blog_vars, coord_vars>>

not_coord == <<story_vars, tool_vars, fn_vars, gate_vars, wf_vars, research_vars,
    blog_vars, chk_vars>>

not_research == <<story_vars, tool_vars, fn_vars, gate_vars, wf_vars,
    blog_vars, chk_vars, coord_vars>>

----------------------------------------------------------------------------
(* Bounds of the model *)

\* how many distinct story texts the writer and the refiner can produce
NumDrafts == 3

\* the largest item count a tool is called with (above every threshold)
MaxCount == 12

\* how many tool calls a resumable runner is followed through
MaxCalls == 2

\* how far from its threshold the count of such a call may lie
GateSpread == 1

\* how many generate_images_with_approval calls the agent makes in one turn
MaxToolCalls == 2

\* the largest num_images the agent asks for in the workflow
MaxImages == 2

\* how many answers are typed at the approval prompt
MaxInputs == 2

\* how many distinct reports a researcher can write
NumReports == 2

\* how many distinct texts an agent of BlogPipeline can write
NumBlogTexts == 5

\* how many tool calls the coordinator's model makes at most in one run
MaxCoordCalls == 4

\* how many events a list given to check_for_approval holds at most
MaxEvents == 2

\* up to which position a name is also tried with that one letter in upper case
MaxFlip == 2

----------------------------------------------------------------------------
(* Session state: a mapping from key to value, overwrite semantics *)

EmptyState == [k \in {} |-> ""]

HasKey(st, k) == k \in DOMAIN st

Put(st, k, v) == [x \in (DOMAIN st) \cup {k} |-> IF x = k THEN v ELSE st[x]]

----------------------------------------------------------------------------
(* Strings that the code takes apart are sequences of characters *)

UpperCase == <<"A", "B", "C", "D", "E", "F", "G", "H", "I", "J", "K", "L", "M",
               "N", "O", "P", "Q", "R", "S", "T", "U", "V", "W", "X", "Y", "Z">>

LowerCase == <<"a", "b", "c", "d", "e", "f", "g", "h", "i", "j", "k", "l", "m",
               "n", "o", "p", "q", "r", "s", "t", "u", "v", "w", "x", "y", "z">>

----------------------------------------------------------------------------
(* Day1/task2_multi_agent_systems/loop_workflow.py *)

max_iterations == 2

SENTINEL == "APPROVED"

Draft(i) == <<"Draft", i>>

Drafts == {Draft(i) : i \in 1..NumDrafts}

\* What CriticAgent can answer: the exact phrase, near misses of it, feedback.
Critiques == {"APPROVED", "APPROVED.", " APPROVED", "approved", "Improve X"}

\* exit_loop with a status outside the documented ones
exit_loop_Done == [status |-> "done",
                   message |-> "Story approved. Exiting refinement loop."]

\* exit_loop(): takes no argument, returns a constant record.
exit_loop == [status |-> "approved",
              message |-> "Story approved. Exiting refinement loop."]

\* The escalate flag of the event that carries exit_loop's result.  exit_loop
\* has no tool_context parameter and assigns nothing: the flag keeps its
\* default.
exit_loop_escalate == FALSE

\* RefinerAgent taking a critique for approval when it is the sentinel up to
\* case, surrounding blanks and a full stop
RefinerTurns_Lenient(critique) ==
    IF critique \in {"APPROVED", "APPROVED.", " APPROVED", "approved"}
    THEN {[calls |-> <<"exit_loop">>, tool_result |-> exit_loop,
           escalate |-> exit_loop_escalate, text |-> <<>>]}
    ELSE {[calls |-> <<>>, tool_result |-> <<>>,
           escalate |-> FALSE, text |-> <<d>>] : d \in Drafts}

\* One turn of RefinerAgent as its instruction prescribes it: on the exact
\* sentinel call exit_loop "and nothing else" (no text, so output_key is not
\* written); otherwise answer with a rewritten draft.
RefinerTurns(critique) ==
    IF critique = SENTINEL
    THEN {[calls |-> <<"exit_loop">>, tool_result |-> exit_loop,
           escalate |-> exit_loop_escalate, text |-> <<>>]}
    ELSE {[calls |-> <<>>, tool_result |-> <<>>,
           escalate |-> FALSE, text |-> <<d>>] : d \in Drafts}

\* output_key: the final response text, when there is one, overwrites the key.
SaveOutput(st, key, text) ==
    IF Len(text) = 0 THEN st ELSE Put(st, key, text[1])

\* LoopAfter that goes from the critic to the critic of the next iteration
LoopAfter_CriticTwice(agent, should_exit, tl) ==
    IF should_exit THEN [pc |-> "done", times_looped |-> tl]
    ELSE IF tl + 1 < max_iterations
         THEN [pc |-> "CriticAgent", times_looped |-> tl + 1]
         ELSE [pc |-> "done", times_looped |-> tl + 1]

\* LoopAfter with the ceiling tested one iteration late.
LoopAfter_OffByOne(agent, should_exit, tl) ==
    IF should_exit THEN [pc |-> "done", times_looped |-> tl]
    ELSE IF agent = "CriticAgent"
         THEN [pc |-> "RefinerAgent", times_looped |-> tl]
         ELSE IF tl + 1 <= max_iterations
              THEN [pc |-> "CriticAgent", times_looped |-> tl + 1]
              ELSE [pc |-> "done", times_looped |-> tl + 1]

\* LoopAgent, after sub-agent `agent` of iteration tl + 1 has finished:
\* return when one of its events escalated; otherwise the next sub-agent of
\* the list, and after the last one count the iteration and test the ceiling.
LoopAfter(agent, should_exit, tl) ==
    IF should_exit THEN [pc |-> "done", times_looped |-> tl]
    ELSE IF agent = "CriticAgent"
         THEN [pc |-> "RefinerAgent", times_looped |-> tl]
         ELSE IF tl + 1 < max_iterations
              THEN [pc |-> "CriticAgent", times_looped |-> tl + 1]
              ELSE [pc |-> "done", times_looped |-> tl + 1]

\* one record per agent turn: the state it left (story, critique), the tool
\* calls it made and the text of its final response (<<>> when it gave none)
StoryEvent(agent, iter, st, calls, text) ==
    [agent |-> agent, iteration |-> iter,
     story |-> st["current_story"],
     critique |-> IF HasKey(st, "critique") THEN st["critique"] ELSE "",
     calls |-> calls, text |-> text]

\* InitialWriterAgent: first sub-agent of StoryPipeline, output_key
\* current_story; then the pipeline enters the loop (max_iterations > 0).
InitialWriterAgent ==
    /\ story_pc = "InitialWriterAgent"
    /\ \E d \in Drafts :
         LET st == Put(story_state, "current_story", d) IN
         /\ story_state' = st
         /\ story_events' = Append(story_events,
                                   StoryEvent("InitialWriterAgent", 0, st, <<>>, <<d>>))
    /\ story_pc' = IF 0 < max_iterations THEN "CriticAgent" ELSE "done"
    /\ UNCHANGED <<times_looped, not_story>>

\* CriticAgent: reads {current_story}, output_key critique.
CriticAgent ==
    /\ story_pc = "CriticAgent"
    /\ HasKey(story_state, "current_story")
    /\ \E c \in Critiques :
         LET st == Put(story_state, "critique", c)
             nx == LoopAfter("CriticAgent", FALSE, times_looped) IN
         /\ story_state' = st
         /\ story_events' = Append(story_events,
                StoryEvent("CriticAgent", times_looped + 1, st, <<>>, <<c>>))
         /\ story_pc' = nx.pc
         /\ times_looped' = nx.times_looped
    /\ UNCHANGED not_story

\* RefinerAgent: reads {current_story} and {critique}, output_key
\* current_story, tools [exit_loop].
RefinerAgent ==
    /\ story_pc = "RefinerAgent"
    /\ HasKey(story_state, "current_story")
    /\ HasKey(story_state, "critique")
    /\ \E t \in RefinerTurns(story_state["critique"]) :
         LET st == SaveOutput(story_state, "current_story", t.text)
             nx == LoopAfter("RefinerAgent", t.escalate, times_looped) IN
         /\ story_state' = st
         /\ story_events' = Append(story_events,
                StoryEvent("RefinerAgent", times_looped + 1, st, t.calls, t.text))
         /\ story_pc' = nx.pc
         /\ times_looped' = nx.times_looped
    /\ UNCHANGED not_story

StoryInit ==
    /\ story_pc = "InitialWriterAgent"
    /\ times_looped = 0
    /\ story_state = EmptyState
    /\ story_events = <<>>

StoryNext ==
    \/ InitialWriterAgent
    \/ CriticAgent
    \/ RefinerAgent

----------------------------------------------------------------------------
(* The approval-gate tools:                                                *)
(*   Day2/examples/lro_tool_template.py                                    *)
(*   Day2/task2b_advanced_patterns/long_running_operations.py              *)
(*   Day2/exercise/image_generation_with_approval.py                       *)
(* tool_context.tool_confirmation is <<>> for None and <<[confirmed |-> b]>> *)
(* for a ToolConfirmation.  A tool returns [ret |-> the dict it returns,   *)
(* requests |-> the request_confirmation calls it made].  An f-string is   *)
(* the tuple of its pieces; money is counted in cents ($0.02 = 2).         *)

APPROVAL_THRESHOLD == 10

LARGE_ORDER_THRESHOLD == 5

BULK_IMAGE_THRESHOLD == 1

CENTS_PER_IMAGE == 2

Counts == (0 - 1)..MaxCount

Destinations == {"Rotterdam", "Singapore"}

Descriptions == {"sunset over mountains", "abstract art patterns"}

Confirmations == {<<>>, <<[confirmed |-> TRUE]>>, <<[confirmed |-> FALSE]>>}

\* ${x:.2f} of an amount in cents
Money(cents) == <<"$", cents>>

\* my_lro_tool with the resumed branch ignoring the decision
my_lro_tool_IgnoresDecision(item_count, tool_confirmation) ==
    IF item_count <= APPROVAL_THRESHOLD
    THEN [ret |-> [status |-> "approved",
                   id |-> <<"AUTO-", item_count>>,
                   message |-> <<"Auto-approved: ", item_count, " items">>],
          requests |-> <<>>]
    ELSE IF Len(tool_confirmation) = 0
    THEN [ret |-> [status |-> "pending",
                   message |-> <<item_count, " items requires approval">>],
          requests |-> <<[hint |-> <<"Large operation: ", item_count, " items. Approve?">>,
                          payload |-> [item_count |-> item_count]]>>]
    ELSE [ret |-> [status |-> "approved",
                   id |-> <<"HUMAN-", item_count>>,
                   message |-> <<"Approved: ", item_count, " items">>],
          requests |-> <<>>]

my_lro_tool(item_count, tool_confirmation) ==
    IF item_count <= APPROVAL_THRESHOLD
    THEN [ret |-> [status |-> "approved",
                   id |-> <<"AUTO-", item_count>>,
                   message |-> <<"Auto-approved: ", item_count, " items">>],
          requests |-> <<>>]
    ELSE IF Len(tool_confirmation) = 0
    THEN [ret |-> [status |-> "pending",
                   message |-> <<item_count, " items requires approval">>],
          requests |-> <<[hint |-> <<"Large operation: ", item_count, " items. Approve?">>,
                          payload |-> [item_count |-> item_count]]>>]
    ELSE IF tool_confirmation[1].confirmed
    THEN [ret |-> [status |-> "approved",
                   id |-> <<"HUMAN-", item_count>>,
                   message |-> <<"Approved: ", item_count, " items">>],
          requests |-> <<>>]
    ELSE [ret |-> [status |-> "rejected",
                   message |-> <<"Rejected: ", item_count, " items">>],
          requests |-> <<>>]

\* place_shipping_order with the threshold test written < instead of <=
place_shipping_order_Strict(num_containers, destination, tool_confirmation) ==
    IF num_containers < LARGE_ORDER_THRESHOLD
    THEN [ret |-> [status |-> "approved",
                   order_id |-> <<"ORD-", num_containers, "-AUTO">>,
                   message |-> <<"Auto-approved: ", num_containers,
                                 " containers to ", destination>>],
          requests |-> <<>>]
    ELSE IF Len(tool_confirmation) = 0
    THEN [ret |-> [status |-> "pending", message |-> <<"Requires approval">>],
          requests |-> <<[hint |-> <<"Large order: ", num_containers,
                                     " containers to ", destination, ". Approve?">>,
                          payload |-> [num_containers |-> num_containers,
                                       destination |-> destination]]>>]
    ELSE IF tool_confirmation[1].confirmed
    THEN [ret |-> [status |-> "approved",
                   order_id |-> <<"ORD-", num_containers, "-HUMAN">>,
                   message |-> <<"Order approved: ", num_containers,
                                 " containers to ", destination>>],
          requests |-> <<>>]
    ELSE [ret |-> [status |-> "rejected", message |-> <<"Order rejected">>],
          requests |-> <<>>]

\* place_shipping_order asking for confirmation again after a refusal
place_shipping_order_AsksAgain(num_containers, destination, tool_confirmation) ==
    IF num_containers <= LARGE_ORDER_THRESHOLD
    THEN [ret |-> [status |-> "approved",
                   order_id |-> <<"ORD-", num_containers, "-AUTO">>,
                   message |-> <<"Auto-approved: ", num_containers,
                                 " containers to ", destination>>],
          requests |-> <<>>]
    ELSE IF Len(tool_confirmation) = 0 \/ ~tool_confirmation[1].confirmed
    THEN [ret |-> [status |-> "pending", message |-> <<"Requires approval">>],
          requests |-> <<[hint |-> <<"Large order: ", num_containers,
                                     " containers to ", destination, ". Approve?">>,
                          payload |-> [num_containers |-> num_containers,
                                       destination |-> destination]]>>]
    ELSE [ret |-> [status |-> "approved",
                   order_id |-> <<"ORD-", num_containers, "-HUMAN">>,
                   message |-> <<"Order approved: ", num_containers,
                                 " containers to ", destination>>],
          requests |-> <<>>]

place_shipping_order(num_containers, destination, tool_confirmation) ==
    IF num_containers <= LARGE_ORDER_THRESHOLD
    THEN [ret |-> [status |-> "approved",
                   order_id |-> <<"ORD-", num_containers, "-AUTO">>,
                   message |-> <<"Auto-approved: ", num_containers,
                                 " containers to ", destination>>],
          requests |-> <<>>]
    ELSE IF Len(tool_confirmation) = 0
    THEN [ret |-> [status |-> "pending", message |-> <<"Requires approval">>],
          requests |-> <<[hint |-> <<"Large order: ", num_containers,
                                     " containers to ", destination, ". Approve?">>,
                          payload |-> [num_containers |-> num_containers,
                                       destination |-> destination]]>>]
    ELSE IF tool_confirmation[1].confirmed
    THEN [ret |-> [status |-> "approved",
                   order_id |-> <<"ORD-", num_containers, "-HUMAN">>,
                   message |-> <<"Order approved: ", num_containers,
                                 " containers to ", destination>>],
          requests |-> <<>>]
    ELSE [ret |-> [status |-> "rejected", message |-> <<"Order rejected">>],
          requests |-> <<>>]

\* generate_images_with_approval returning "pending" without having called
\* request_confirmation
generate_images_with_approval_NoRequest(num_images, description, tool_confirmation) ==
    IF num_images <= BULK_IMAGE_THRESHOLD
    THEN [ret |-> [status |-> "approved",
                   generation_id |-> <<"IMG-", num_images, "-AUTO">>,
                   num_images |-> num_images,
                   description |-> description,
                   message |-> <<"Auto-approved: Ready to generate ", num_images, " image">>,
                   cost_estimate |-> Money(num_images * CENTS_PER_IMAGE)],
          requests |-> <<>>]
    ELSE IF Len(tool_confirmation) = 0
    THEN [ret |-> [status |-> "pending",
                   message |-> <<"Bulk generation of ", num_images,
                                 " images requires approval">>,
                   cost_estimate |-> Money(num_images * CENTS_PER_IMAGE)],
          requests |-> <<>>]
    ELSE IF tool_confirmation[1].confirmed
    THEN [ret |-> [status |-> "approved",
                   generation_id |-> <<"IMG-", num_images, "-HUMAN">>,
                   num_images |-> num_images,
                   description |-> description,
                   message |-> <<"Approved: Ready to generate ", num_images, " images">>,
                   cost_estimate |-> Money(num_images * CENTS_PER_IMAGE)],
          requests |-> <<>>]
    ELSE [ret |-> [status |-> "rejected",
                   num_images |-> num_images,
                   message |-> <<"Rejected: Bulk generation of ", num_images,
                                 " images cancelled">>],
          requests |-> <<>>]

generate_images_with_approval(num_images, description, tool_confirmation) ==
    IF num_images <= BULK_IMAGE_THRESHOLD
    THEN [ret |-> [status |-> "approved",
                   generation_id |-> <<"IMG-", num_images, "-AUTO">>,
                   num_images |-> num_images,
                   description |-> description,
                   message |-> <<"Auto-approved: Ready to generate ", num_images, " image">>,
                   cost_estimate |-> Money(num_images * CENTS_PER_IMAGE)],
          requests |-> <<>>]
    ELSE IF Len(tool_confirmation) = 0
    THEN LET cost_estimate == num_images * CENTS_PER_IMAGE IN
         [ret |-> [status |-> "pending",
                   message |-> <<"Bulk generation of ", num_images,
                                 " images requires approval">>,
                   cost_estimate |-> Money(cost_estimate)],
          requests |-> <<[hint |-> <<"Bulk Generation Request: Images: ", num_images,
                                     " Description: ", description,
                                     " Estimated Cost: ", Money(cost_estimate),
                                     " Approve this bulk generation?">>,
                          payload |-> [num_images |-> num_images,
                                       description |-> description,
                                       cost_estimate |-> cost_estimate]]>>]
    ELSE IF tool_confirmation[1].confirmed
    THEN [ret |-> [status |-> "approved",
                   generation_id |-> <<"IMG-", num_images, "-HUMAN">>,
                   num_images |-> num_images,
                   description |-> description,
                   message |-> <<"Approved: Ready to generate ", num_images, " images">>,
                   cost_estimate |-> Money(num_images * CENTS_PER_IMAGE)],
          requests |-> <<>>]
    ELSE [ret |-> [status |-> "rejected",
                   num_images |-> num_images,
                   message |-> <<"Rejected: Bulk generation of ", num_images,
                                 " images cancelled">>],
          requests |-> <<>>]

\* The threshold a tool compares its count with.
Threshold(tool) ==
    CASE tool = "my_lro_tool" -> APPROVAL_THRESHOLD
      [] tool = "place_shipping_order" -> LARGE_ORDER_THRESHOLD
      [] tool = "generate_images_with_approval" -> BULK_IMAGE_THRESHOLD

\* A call of one of the three tools by name, with a fresh tool context.
CallTool(tool, count, text, confirmation) ==
    CASE tool = "my_lro_tool" -> my_lro_tool(count, confirmation)
      [] tool = "place_shipping_order" ->
             place_shipping_order(count, text, confirmation)
      [] tool = "generate_images_with_approval" ->
             generate_images_with_approval(count, text, confirmation)

\* the arguments of a direct call
ToolCall(tool, count, text, confirmation) ==
    [tool |-> tool, count |-> count, text |-> text, confirmation |-> confirmation]

\* my_lro_tool called on any count and confirmation state
Call_my_lro_tool ==
    /\ \E n \in Counts, c \in Confirmations :
         LET r == CallTool("my_lro_tool", n, "", c) IN
         /\ tool_call' = <<ToolCall("my_lro_tool", n, "", c)>>
         /\ tool_result' = <<r.ret>>
         /\ tool_requests' = r.requests
    /\ UNCHANGED not_tool

\* place_shipping_order called on any count, destination and confirmation state
Call_place_shipping_order ==
    /\ \E n \in Counts, d \in Destinations, c \in Confirmations :
         LET r == CallTool("place_shipping_order", n, d, c) IN
         /\ tool_call' = <<ToolCall("place_shipping_order", n, d, c)>>
         /\ tool_result' = <<r.ret>>
         /\ tool_requests' = r.requests
    /\ UNCHANGED not_tool

\* generate_images_with_approval called on any count, description and
\* confirmation state
Call_generate_images_with_approval ==
    /\ \E n \in Counts, d \in Descriptions, c \in Confirmations :
         LET r == CallTool("generate_images_with_approval", n, d, c) IN
         /\ tool_call' = <<ToolCall("generate_images_with_approval", n, d, c)>>
         /\ tool_result' = <<r.ret>>
         /\ tool_requests' = r.requests
    /\ UNCHANGED not_tool

ToolInit ==
    /\ tool_call = <<>>
    /\ tool_result = <<>>
    /\ tool_requests = <<>>

ToolNext ==
    \/ Call_my_lro_tool
    \/ Call_place_shipping_order
    \/ Call_generate_images_with_approval

----------------------------------------------------------------------------
(* A gated tool under a resumable App (ResumabilityConfig(is_resumable=True)): *)
(* the runner calls the tool with tool_confirmation None; a call that asked *)
(* for confirmation is suspended, and when a response {"confirmed": b} to   *)
(* that request arrives the runner calls the tool again, with the same      *)
(* arguments and tool_confirmation set.                                     *)

GateTools == {"my_lro_tool", "place_shipping_order", "generate_images_with_approval"}

GateCounts(tool) == (Threshold(tool) - GateSpread)..(Threshold(tool) + GateSpread)

GateTexts(tool) ==
    CASE tool = "my_lro_tool" -> {""}
      [] tool = "place_shipping_order" -> Destinations
      [] tool = "generate_images_with_approval" -> Descriptions

\* the state of the gate that the status of the returned dict stands for
GateStatus(status) ==
    CASE status = "approved" -> "APPROVED"
      [] status = "pending" -> "PENDING"
      [] status = "rejected" -> "REJECTED"

\* first call of a tool: tool_confirmation is None
GateFirstCall ==
    /\ Len(gate_calls) < MaxCalls
    /\ \E tool \in GateTools :
         \E n \in GateCounts(tool), text \in GateTexts(tool) :
           LET r == CallTool(tool, n, text, <<>>) IN
           gate_calls' = Append(gate_calls,
               [tool |-> tool, count |-> n, text |-> text,
                requests |-> r.requests,
                decisions |-> <<>>,
                status |-> GateStatus(r.ret.status),
                history |-> <<"NOT_REQUESTED", GateStatus(r.ret.status)>>])
    /\ UNCHANGED not_gate

\* a decision arrives for a recorded request: the suspended call is run again
GateResume ==
    /\ \E i \in DOMAIN gate_calls, b \in BOOLEAN :
         LET g == gate_calls[i]
             r == CallTool(g.tool, g.count, g.text, <<[confirmed |-> b]>>) IN
         /\ g.status = "PENDING"
         /\ Len(g.requests) > Len(g.decisions)
         /\ gate_calls' = [gate_calls EXCEPT ![i] =
               [g EXCEPT !.requests = g.requests \o r.requests,
                         !.decisions = Append(g.decisions, b),
                         !.status = GateStatus(r.ret.status),
                         !.history = Append(g.history, GateStatus(r.ret.status))]]
    /\ UNCHANGED not_gate

GateInit == gate_calls = <<>>

GateNext ==
    \/ GateFirstCall
    \/ GateResume

----------------------------------------------------------------------------
(* Day2/exercise/image_generation_with_approval.py, sections 7 and 8, and  *)
(* Day2/task2b_advanced_patterns/workflow_helpers.py.                      *)
(* An event is [invocation_id, content]: content is <<>> for None, else    *)
(* <<[parts |-> a sequence of parts]>>.  A part holds a function_call, a   *)
(* function_response or a text; an absent field is <<>>.  What is typed at *)
(* the input() prompt is a sequence of characters.                         *)

CONFIRMATION_NAME == "adk_request_confirmation"

USER_ID == "test_user"

SessionIds == {"img_gen_0a1b2c3d", "img_gen_4e5f6a7b"}

InvocationIds == {"e-inv-1", "e-inv-2"}

Part(function_call, function_response, text) ==
    [function_call |-> function_call, function_response |-> function_response,
     text |-> text]

CallPart(name, id, args) ==
    Part(<<[name |-> name, id |-> id, args |-> args]>>, <<>>, <<>>)

ResponsePart(name, id, response) ==
    Part(<<>>, <<[name |-> name, id |-> id, response |-> response]>>, <<>>)

TextPart(text) == Part(<<>>, <<>>, <<text>>)

Event(invocation_id, parts) ==
    [invocation_id |-> invocation_id, content |-> <<[parts |-> parts]>>]

NoContentEvent(invocation_id) ==
    [invocation_id |-> invocation_id, content |-> <<>>]

\* dict.get(key, default)
Get(dict, key, default) == IF key \in DOMAIN dict THEN dict[key] ELSE default

\* the (event, part) positions that check_for_approval's two loops visit and
\* whose part is a function call named adk_request_confirmation
RequestPositions(events) ==
    {p \in (DOMAIN events) \X (1..MaxToolCalls + 1) :
        /\ events[p[1]].content # <<>>
        /\ events[p[1]].content[1].parts # <<>>
        /\ p[2] \in DOMAIN events[p[1]].content[1].parts
        /\ LET part == events[p[1]].content[1].parts[p[2]] IN
           /\ part.function_call # <<>>
           /\ part.function_call[1].name = CONFIRMATION_NAME}

\* the position the loops reach first: event order, then part order
FirstPosition(ps) ==
    CHOOSE p \in ps : \A q \in ps :
        p[1] < q[1] \/ (p[1] = q[1] /\ p[2] <= q[2])

\* check_for_approval taking any function call for a confirmation request
check_for_approval_AnyCall(events) ==
    LET ps == {p \in (DOMAIN events) \X (1..MaxToolCalls + 1) :
                 /\ events[p[1]].content # <<>>
                 /\ p[2] \in DOMAIN events[p[1]].content[1].parts
                 /\ events[p[1]].content[1].parts[p[2]].function_call # <<>>} IN
    IF ps = {} THEN <<>>
    ELSE LET p == FirstPosition(ps)
             event == events[p[1]]
             call == event.content[1].parts[p[2]].function_call[1] IN
         <<[approval_id |-> call.id,
            invocation_id |-> event.invocation_id,
            hint |-> Get(call.args, "hint", "")]>>

\* check_for_approval returning the last request instead of the first
check_for_approval_Last(events) ==
    IF RequestPositions(events) = {} THEN <<>>
    ELSE LET ps == RequestPositions(events)
             p == CHOOSE x \in ps : \A q \in ps :
                     q[1] < x[1] \/ (q[1] = x[1] /\ q[2] <= x[2])
             event == events[p[1]]
             call == event.content[1].parts[p[2]].function_call[1] IN
         <<[approval_id |-> call.id,
            invocation_id |-> event.invocation_id,
            hint |-> Get(call.args, "hint", "")]>>

\* check_for_approval(events): <<>> for None, else <<the dict>>
check_for_approval(events) ==
    IF RequestPositions(events) = {} THEN <<>>
    ELSE LET p == FirstPosition(RequestPositions(events))
             event == events[p[1]]
             call == event.content[1].parts[p[2]].function_call[1] IN
         <<[approval_id |-> call.id,
            invocation_id |-> event.invocation_id,
            hint |-> Get(call.args, "hint", "")]>>

\* check_for_approval of workflow_helpers.py: the same two loops, the record
\* has no hint
workflow_helpers_check_for_approval(events) ==
    IF RequestPositions(events) = {} THEN <<>>
    ELSE LET p == FirstPosition(RequestPositions(events))
             event == events[p[1]]
             call == event.content[1].parts[p[2]].function_call[1] IN
         <<[approval_id |-> call.id,
            invocation_id |-> event.invocation_id]>>

\* create_approval_response answering under the request's name as its id
create_approval_response_WrongId(approval_info, approved) ==
    [role |-> "user",
     parts |-> <<ResponsePart(CONFIRMATION_NAME, CONFIRMATION_NAME,
                              [confirmed |-> approved])>>]

\* create_approval_response(approval_info, approved): the Content to send
create_approval_response(approval_info, approved) ==
    [role |-> "user",
     parts |-> <<ResponsePart(CONFIRMATION_NAME, approval_info.approval_id,
                              [confirmed |-> approved])>>]

\* str.lower() on one character: a cased letter goes to its lower-case
\* form, every other character stays
Lower(c) ==
    IF \E i \in DOMAIN UpperCase : UpperCase[i] = c
    THEN LowerCase[CHOOSE i \in DOMAIN UpperCase : UpperCase[i] = c]
    ELSE c

IsSpace(c) == c \in {" ", "\t", "\n"}

RECURSIVE LStrip(_)
LStrip(str) ==
    IF str # <<>> /\ IsSpace(Head(str)) THEN LStrip(Tail(str)) ELSE str

RECURSIVE RStrip(_)
RStrip(str) ==
    IF str # <<>> /\ IsSpace(str[Len(str)])
    THEN RStrip(SubSeq(str, 1, Len(str) - 1)) ELSE str

\* input(...).strip().lower()
StripLower(str) ==
    LET t == LStrip(RStrip(str)) IN [i \in 1..Len(t) |-> Lower(t[i])]

\* what can be typed at the prompt
Answers ==
    {<<"y", "e", "s">>, <<" ", "Y", " ">>,
     <<"N", "o">>, <<"n", "\n">>,
     <<"m", "a", "y", "b", "e">>, <<"y", "e", "s", "!">>, <<" ">>}

\* get_human_approval without the strip()
get_human_approval_NoStrip(typed) ==
    LET response == [i \in 1..Len(typed) |-> Lower(typed[i])] IN
    IF response \in {<<"y", "e", "s">>, <<"y">>} THEN <<TRUE>>
    ELSE IF response \in {<<"n", "o">>, <<"n">>} THEN <<FALSE>>
    ELSE <<>>

\* get_human_approval taking every answer that is not a yes for a no
get_human_approval_ElseNo(typed) ==
    LET response == StripLower(typed) IN
    IF response \in {<<"y", "e", "s">>, <<"y">>} THEN <<TRUE>> ELSE <<FALSE>>

\* one pass of get_human_approval's while loop: <<TRUE>> or <<FALSE>> when it
\* returns, <<>> when it prompts again
get_human_approval(typed) ==
    LET response == StripLower(typed) IN
    IF response \in {<<"y", "e", "s">>, <<"y">>} THEN <<TRUE>>
    ELSE IF response \in {<<"n", "o">>, <<"n">>} THEN <<FALSE>>
    ELSE <<>>

TOOL_NAME == "generate_images_with_approval"

FcId(j) == <<"fc", j>>

ConfirmId(j) == <<"confirm", j>>

\* the function calls the agent's model can make in its first turn
AgentCalls ==
    UNION {[1..k -> [count : 1..MaxImages, description : {"abstract art patterns"}]] :
               k \in 0..MaxToolCalls}

Indices(seq) == [j \in 1..Len(seq) |-> j]

\* the session's gates after the first turn: each call has run once, with
\* tool_confirmation None
FirstTurnGates(calls) ==
    [j \in 1..Len(calls) |->
        LET r == generate_images_with_approval(calls[j].count,
                                               calls[j].description, <<>>) IN
        [call_id |-> FcId(j), count |-> calls[j].count,
         description |-> calls[j].description,
         requests |-> r.requests,
         request_id |-> IF r.requests # <<>> THEN <<ConfirmId(j)>> ELSE <<>>,
         decisions |-> <<>>,
         result |-> r.ret,
         status |-> GateStatus(r.ret.status),
         history |-> <<"NOT_REQUESTED", GateStatus(r.ret.status)>>]]

\* the events of the first run_async: the model's function calls, one
\* adk_request_confirmation call per requested confirmation, the tools'
\* responses, and a closing text
FirstTurnEvents(inv, calls, lead) ==
    LET gates == FirstTurnGates(calls)
        asked == SelectSeq(Indices(calls), LAMBDA j : gates[j].requests # <<>>)
        ev_calls == Event(inv, [j \in 1..Len(calls) |->
                        CallPart(TOOL_NAME, FcId(j),
                                 [num_images |-> calls[j].count,
                                  description |-> calls[j].description])])
        ev_asked == Event(inv, [n \in 1..Len(asked) |->
                        CallPart(CONFIRMATION_NAME, ConfirmId(asked[n]),
                                 [originalFunctionCall |-> FcId(asked[n]),
                                  toolConfirmation |-> gates[asked[n]].requests[1]])])
        ev_results == Event(inv, [j \in 1..Len(calls) |->
                        ResponsePart(TOOL_NAME, FcId(j), gates[j].result)])
        ev_text == Event(inv, <<TextPart("status update")>>) IN
    (IF lead THEN <<NoContentEvent(inv)>> ELSE <<>>)
    \o (IF Len(calls) > 0 THEN <<ev_calls>> ELSE <<>>)
    \o (IF Len(asked) > 0 THEN <<ev_asked>> ELSE <<>>)
    \o (IF Len(calls) > 0 THEN <<ev_results>> ELSE <<>>)
    \o <<ev_text>>

\* the runner on a resume call: the gate whose recorded request the response
\* answers, in the suspended invocation, runs its tool again with the
\* decision as tool_confirmation; every other gate is left as it is
ResumedGates(gates, suspended_inv, run) ==
    LET answer == run.new_message.parts[1].function_response[1] IN
    [j \in DOMAIN gates |->
        LET g == gates[j] IN
        IF /\ g.status = "PENDING"
           /\ g.request_id = <<answer.id>>
           /\ run.invocation_id = <<suspended_inv>>
        THEN LET r == generate_images_with_approval(g.count, g.description,
                         <<[confirmed |-> answer.response.confirmed]>>) IN
             [g EXCEPT !.requests = g.requests \o r.requests,
                       !.decisions = Append(g.decisions, answer.response.confirmed),
                       !.result = r.ret,
                       !.status = GateStatus(r.ret.status),
                       !.history = Append(g.history, GateStatus(r.ret.status))]
        ELSE g]

\* the events of the resume call: the responses of the tools that ran again,
\* the images of an approved request, and a closing text
ResumedEvents(inv, before, after) ==
    LET ran == SelectSeq(Indices(after), LAMBDA j : after[j] # before[j])
        shown == SelectSeq(ran, LAMBDA j : after[j].status = "APPROVED") IN
    [n \in 1..Len(ran) |->
        Event(inv, <<ResponsePart(TOOL_NAME, after[ran[n]].call_id,
                                  after[ran[n]].result)>>)]
    \o [n \in 1..Len(shown) |->
        Event(inv, <<ResponsePart("getTinyImage", <<"img", shown[n]>>,
                        [content |-> <<[type |-> "image", data |-> "iVBORw0KGgo="]>>])>>)]
    \o <<Event(inv, <<TextPart("status update")>>)>>

\* run_image_generation_workflow up to STEP 1: the arguments, create_session,
\* and the first run_async, whose events are collected in all_events
WfInitialRun ==
    /\ wf_pc = "start"
    /\ \E interactive \in BOOLEAN, auto_approve \in BOOLEAN,
          session_id \in SessionIds, inv \in InvocationIds,
          calls \in AgentCalls, lead \in BOOLEAN :
         /\ wf_args' = [interactive |-> interactive, auto_approve |-> auto_approve]
         /\ wf_session' = <<session_id>>
         /\ wf_runs' = <<[user_id |-> USER_ID, session_id |-> session_id,
                          new_message |-> [role |-> "user",
                                           parts |-> <<TextPart("query")>>],
                          invocation_id |-> <<>>,
                          assigned_invocation |-> inv]>>
         /\ wf_gates' = FirstTurnGates(calls)
         /\ wf_events' = FirstTurnEvents(inv, calls, lead)
    /\ wf_pc' = "check"
    /\ UNCHANGED <<wf_approval_info, wf_approved, wf_inputs, wf_displayed>>
    /\ UNCHANGED not_wf

\* WfCheckApproval whose non-interactive decision is always an approval
WfCheckApproval_ApprovesAlways ==
    /\ wf_pc = "check"
    /\ LET approval_info == check_for_approval(wf_events) IN
       /\ wf_approval_info' = approval_info
       /\ IF approval_info # <<>>
          THEN IF wf_args.interactive
               THEN wf_pc' = "input" /\ UNCHANGED wf_approved
               ELSE wf_pc' = "resume" /\ wf_approved' = <<TRUE>>
          ELSE wf_pc' = "display" /\ UNCHANGED wf_approved
    /\ UNCHANGED <<wf_args, wf_session, wf_events, wf_inputs, wf_runs,
                   wf_gates, wf_displayed>>
    /\ UNCHANGED not_wf

\* STEP 2 and the head of STEP 3: check_for_approval, then the decision of
\* non-interactive mode, or on to the prompt
WfCheckApproval ==
    /\ wf_pc = "check"
    /\ LET approval_info == check_for_approval(wf_events) IN
       /\ wf_approval_info' = approval_info
       /\ IF approval_info # <<>>
          THEN IF wf_args.interactive
               THEN wf_pc' = "input" /\ UNCHANGED wf_approved
               ELSE wf_pc' = "resume" /\ wf_approved' = <<wf_args.auto_approve>>
          ELSE wf_pc' = "display" /\ UNCHANGED wf_approved
    /\ UNCHANGED <<wf_args, wf_session, wf_events, wf_inputs, wf_runs,
                   wf_gates, wf_displayed>>
    /\ UNCHANGED not_wf

\* get_human_approval: one answer typed at the prompt
WfHumanInput ==
    /\ wf_pc = "input"
    /\ Len(wf_inputs) < MaxInputs
    /\ \E typed \in Answers :
         LET approved == get_human_approval(typed) IN
         /\ wf_inputs' = Append(wf_inputs, typed)
         /\ IF approved # <<>>
            THEN wf_pc' = "resume" /\ wf_approved' = approved
            ELSE wf_pc' = "input" /\ UNCHANGED wf_approved
    /\ UNCHANGED <<wf_args, wf_session, wf_events, wf_approval_info, wf_runs,
                   wf_gates, wf_displayed>>
    /\ UNCHANGED not_wf

\* the resume call of STEP 3: run_async with the approval response and the
\* invocation_id of approval_info; its events are appended to all_events
WfResume ==
    /\ wf_pc = "resume"
    /\ LET info == wf_approval_info[1]
           run == [user_id |-> USER_ID, session_id |-> wf_session[1],
                   new_message |-> create_approval_response(info, wf_approved[1]),
                   invocation_id |-> <<info.invocation_id>>,
                   assigned_invocation |-> info.invocation_id]
           gates == ResumedGates(wf_gates, wf_runs[1].assigned_invocation, run) IN
       /\ wf_runs' = Append(wf_runs, run)
       /\ wf_gates' = gates
       /\ wf_events' = wf_events \o
                       ResumedEvents(info.invocation_id, wf_gates, gates)
    /\ wf_pc' = "display"
    /\ UNCHANGED <<wf_args, wf_session, wf_approval_info, wf_approved,
                   wf_inputs, wf_displayed>>
    /\ UNCHANGED not_wf

\* STEP 4 running extract_and_display_images whatever was decided
WfDisplay_Always ==
    /\ wf_pc = "display"
    /\ wf_displayed' = wf_displayed + 1
    /\ wf_pc' = "done"
    /\ UNCHANGED <<wf_args, wf_session, wf_events, wf_approval_info,
                   wf_approved, wf_inputs, wf_runs, wf_gates>>
    /\ UNCHANGED not_wf

\* STEP 4: extract_and_display_images when no approval was asked for or the
\* request was approved
WfDisplay ==
    /\ wf_pc = "display"
    /\ wf_displayed' =
          IF wf_approval_info = <<>> \/ (wf_approval_info # <<>> /\ wf_approved[1])
          THEN wf_displayed + 1 ELSE wf_displayed
    /\ wf_pc' = "done"
    /\ UNCHANGED <<wf_args, wf_session, wf_events, wf_approval_info,
                   wf_approved, wf_inputs, wf_runs, wf_gates>>
    /\ UNCHANGED not_wf

WfInit ==
    /\ wf_pc = "start"
    /\ wf_args = [interactive |-> FALSE, auto_approve |-> TRUE]
    /\ wf_session = <<>>
    /\ wf_events = <<>>
    /\ wf_approval_info = <<>>
    /\ wf_approved = <<>>
    /\ wf_inputs = <<>>
    /\ wf_runs = <<>>
    /\ wf_gates = <<>>
    /\ wf_displayed = 0

WfNext ==
    \/ WfInitialRun
    \/ WfCheckApproval
    \/ WfHumanInput
    \/ WfResume
    \/ WfDisplay

----------------------------------------------------------------------------
(* check_for_approval called on event lists of every shape: events without *)
(* content, with an empty part list, with text, with calls of the tool,    *)
(* with one or two confirmation requests, with a confirmation response.    *)

\* the args of an adk_request_confirmation call as the runtime builds them
RequestArgs(j) ==
    [originalFunctionCall |-> FcId(j),
     toolConfirmation |-> [hint |-> "approve?", payload |-> [num_images |-> 2]]]

\* the part lists an event can carry
PartLists ==
    {<<>>,
     <<TextPart("status update")>>,
     <<CallPart(TOOL_NAME, FcId(1), [num_images |-> 2, description |-> "art"])>>,
     <<CallPart(CONFIRMATION_NAME, ConfirmId(1), RequestArgs(1))>>,
     <<TextPart("status update"),
       CallPart(CONFIRMATION_NAME, ConfirmId(2), [hint |-> "approve?"])>>,
     <<CallPart(CONFIRMATION_NAME, ConfirmId(1), RequestArgs(1)),
       CallPart(CONFIRMATION_NAME, ConfirmId(2), RequestArgs(2))>>,
     <<ResponsePart(CONFIRMATION_NAME, ConfirmId(1), [confirmed |-> TRUE])>>}

EventShapes ==
    {NoContentEvent(inv) : inv \in InvocationIds}
    \cup {Event(inv, parts) : inv \in InvocationIds, parts \in PartLists}

\* the caller collects the events of a run, one at a time, before it checks
ChkAppendEvent ==
    /\ chk_result = <<>>
    /\ Len(chk_events) < MaxEvents
    /\ \E event \in EventShapes : chk_events' = Append(chk_events, event)
    /\ UNCHANGED chk_result
    /\ UNCHANGED not_chk

\* check_for_approval of the exercise called on the list; the function only
\* iterates over it
Call_check_for_approval ==
    /\ chk_result = <<>>
    /\ chk_result' = <<[fn |-> "image_generation_with_approval",
                        given |-> chk_events,
                        ret |-> check_for_approval(chk_events)]>>
    /\ UNCHANGED chk_events
    /\ UNCHANGED not_chk

\* check_for_approval of workflow_helpers.py called on the list
Call_workflow_helpers_check_for_approval ==
    /\ chk_result = <<>>
    /\ chk_result' = <<[fn |-> "workflow_helpers",
                        given |-> chk_events,
                        ret |-> workflow_helpers_check_for_approval(chk_events)]>>
    /\ UNCHANGED chk_events
    /\ UNCHANGED not_chk

ChkInit ==
    /\ chk_events = <<>>
    /\ chk_result = <<>>

ChkNext ==
    \/ ChkAppendEvent
    \/ Call_check_for_approval
    \/ Call_workflow_helpers_check_for_approval

----------------------------------------------------------------------------
(* Day2/task2a_custom_tools/currency_converter.py and                      *)
(* Day2/examples/function_tool_template.py, and exit_loop of               *)
(* Day1/task2_multi_agent_systems/loop_workflow.py, called as functions.   *)
(* A call either returns or raises: Return(d) and Raise(e).  A fee is      *)
(* counted in thousandths (0.035 = 35), a rate in hundredths (0.93 = 93).  *)

Return(d) == [raised |-> <<>>, ret |-> <<d>>]

Raise(e) == [raised |-> <<e>>, ret |-> <<>>]

\* str.lower()
LowerStr(str) == [i \in 1..Len(str) |-> Lower(str[i])]

\* dict.get(key): <<>> for None, <<v>> for the value v
Lookup(dict, key) == IF key \in DOMAIN dict THEN <<dict[key]>> ELSE <<>>

\* the truth value of what dict.get gave: None and the number 0 are false
Truthy(got) == got # <<>> /\ got[1] # 0

\* fee_database
fee_database ==
    (<<"p", "l", "a", "t", "i", "n", "u", "m", " ", "c", "r", "e", "d", "i", "t",
       " ", "c", "a", "r", "d">> :> 20)
    @@ (<<"g", "o", "l", "d", " ", "d", "e", "b", "i", "t", " ", "c", "a", "r", "d">> :> 35)
    @@ (<<"b", "a", "n", "k", " ", "t", "r", "a", "n", "s", "f", "e", "r">> :> 10)

\* get_fee_for_payment_method looking the method up as it was given
get_fee_for_payment_method_CaseSensitive(method) ==
    LET fee == Lookup(fee_database, method) IN
    IF fee # <<>>
    THEN Return([status |-> "success", fee_percentage |-> fee[1]])
    ELSE Return([status |-> "error",
                 error_message |-> <<"Payment method '", method, "' not found">>])

get_fee_for_payment_method(method) ==
    LET fee == Lookup(fee_database, LowerStr(method)) IN
    IF fee # <<>>
    THEN Return([status |-> "success", fee_percentage |-> fee[1]])
    ELSE Return([status |-> "error",
                 error_message |-> <<"Payment method '", method, "' not found">>])

\* rate_database
rate_database ==
    <<"u", "s", "d">> :> ((<<"e", "u", "r">> :> 93)
                          @@ (<<"j", "p", "y">> :> 15750)
                          @@ (<<"i", "n", "r">> :> 8358))

\* get_exchange_rate indexing rate_database where the code calls get on it
get_exchange_rate_Raises(base_currency, target_currency) ==
    IF LowerStr(base_currency) \notin DOMAIN rate_database
    THEN Raise([type |-> "KeyError", msg |-> LowerStr(base_currency)])
    ELSE LET rate == Lookup(rate_database[LowerStr(base_currency)],
                            LowerStr(target_currency)) IN
         IF Truthy(rate)
         THEN Return([status |-> "success", rate |-> rate[1]])
         ELSE Return([status |-> "error",
                      error_message |-> <<"Unsupported pair: ", base_currency,
                                          "/", target_currency>>])

get_exchange_rate(base_currency, target_currency) ==
    LET rate == Lookup(Get(rate_database, LowerStr(base_currency), <<>>),
                       LowerStr(target_currency)) IN
    IF Truthy(rate)
    THEN Return([status |-> "success", rate |-> rate[1]])
    ELSE Return([status |-> "error",
                 error_message |-> <<"Unsupported pair: ", base_currency,
                                     "/", target_currency>>])

\* Python's exception classes that occur here, each with its base class
ExceptionBase ==
    [NameError |-> "Exception", RuntimeError |-> "Exception",
     ZeroDivisionError |-> "ArithmeticError", ArithmeticError |-> "Exception",
     ValueError |-> "Exception", UnicodeError |-> "ValueError",
     KeyError |-> "LookupError", LookupError |-> "Exception"]

\* isinstance(e, cls), which is what an except clause tests
RECURSIVE IsInstance(_, _)
IsInstance(type, cls) ==
    \/ type = cls
    \/ /\ type \in DOMAIN ExceptionBase
       /\ IsInstance(ExceptionBase[type], cls)

\* The call do_something(param1, param2).  The file defines no do_something:
\* as it stands the name is unbound and the call raises NameError.  The
\* template is meant to be filled in, and then the call returns a value or
\* raises an error of the business logic.
DoSomething ==
    {[bound |-> FALSE, does |-> Raise([type |-> "NameError",
                                       msg |-> "name 'do_something' is not defined"])]}
    \cup {[bound |-> TRUE, does |-> Return(v)] : v \in {"result", ""}}
    \cup {[bound |-> TRUE, does |-> Raise([type |-> ty, msg |-> "bad input"])] :
             ty \in {"ValueError", "UnicodeError", "RuntimeError",
                     "ZeroDivisionError", "KeyError"}}

\* my_custom_tool catching ValueError only
my_custom_tool_NoCatchAll(param1, param2, do_something) ==
    LET body == IF param1 = ""
                THEN Return([status |-> "error",
                             error_message |-> "param1 is required"])
                ELSE IF do_something.does.raised # <<>>
                     THEN do_something.does
                     ELSE Return([status |-> "success",
                                  data |-> do_something.does.ret[1],
                                  message |-> "Operation completed successfully"])
    IN  IF body.raised = <<>> THEN body
        ELSE LET e == body.raised[1] IN
             IF IsInstance(e.type, "ValueError")
             THEN Return([status |-> "error",
                          error_message |-> <<"Validation error: ", e.msg>>])
             ELSE body

\* my_custom_tool: body is what the try block does, the rest are the two
\* except clauses in their order; str(e) is the message of e
my_custom_tool(param1, param2, do_something) ==
    LET body == IF param1 = ""
                THEN Return([status |-> "error",
                             error_message |-> "param1 is required"])
                ELSE IF do_something.does.raised # <<>>
                     THEN do_something.does
                     ELSE Return([status |-> "success",
                                  data |-> do_something.does.ret[1],
                                  message |-> "Operation completed successfully"])
    IN  IF body.raised = <<>> THEN body
        ELSE LET e == body.raised[1] IN
             IF IsInstance(e.type, "ValueError")
             THEN Return([status |-> "error",
                          error_message |-> <<"Validation error: ", e.msg>>])
             ELSE IF IsInstance(e.type, "Exception")
                  THEN Return([status |-> "error",
                               error_message |-> <<"Unexpected error: ", e.msg>>])
                  ELSE body

\* str.upper() on one character, to write the inputs in other cases
Upper(c) ==
    IF \E i \in DOMAIN LowerCase : LowerCase[i] = c
    THEN UpperCase[CHOOSE i \in DOMAIN LowerCase : LowerCase[i] = c]
    ELSE c

UpperStr(str) == [i \in 1..Len(str) |-> Upper(str[i])]

\* str.title(): the first letter of every word in upper case
TitleStr(str) ==
    [i \in 1..Len(str) |->
        IF i = 1 \/ str[i - 1] = " " THEN Upper(str[i]) ELSE str[i]]

FlipAt(str, p) == [i \in 1..Len(str) |-> IF i = p THEN Upper(str[i]) ELSE str[i]]

\* spellings of a lower-case name that differ from it in case only
CaseVariants(str) ==
    {str, UpperStr(str), TitleStr(str)}
    \cup {FlipAt(str, p) : p \in (1..MaxFlip) \cap (1..Len(str))}

\* what get_fee_for_payment_method is called with: the known methods in
\* several cases, and strings that are no known method
PaymentMethods ==
    UNION {CaseVariants(k) : k \in DOMAIN fee_database}
    \cup {<<"b", "i", "t", "c", "o", "i", "n">>,
          <<>>,
          <<"b", "a", "n", "k", " ", "t", "r", "a", "n", "s", "f", "e", "r", " ">>,
          <<"g", "o", "l", "d", " ", "d", "e", "b", "i", "t">>,
          <<"G", "o", "l", "d", " ", "C", "a", "r", "d">>}

\* what get_exchange_rate is called with, as base and as target
CurrencyCodes ==
    UNION {CaseVariants(k) : k \in {<<"u", "s", "d">>, <<"e", "u", "r">>,
                                    <<"j", "p", "y">>, <<"i", "n", "r">>,
                                    <<"g", "b", "p">>}}
    \cup {<<>>, <<"u", "s", "d", " ">>}

Params1 == {"", "order-7"}

Params2 == {0, 7}

Call_get_fee_for_payment_method ==
    /\ \E method \in PaymentMethods :
         /\ fn_call' = <<[tool |-> "get_fee_for_payment_method",
                          args |-> <<method>>]>>
         /\ fn_result' = <<get_fee_for_payment_method(method)>>
    /\ UNCHANGED not_fn

Call_get_exchange_rate ==
    /\ \E base_currency \in CurrencyCodes, target_currency \in CurrencyCodes :
         /\ fn_call' = <<[tool |-> "get_exchange_rate",
                          args |-> <<base_currency, target_currency>>]>>
         /\ fn_result' = <<get_exchange_rate(base_currency, target_currency)>>
    /\ UNCHANGED not_fn

Call_exit_loop ==
    /\ fn_call' = <<[tool |-> "exit_loop", args |-> <<>>]>>
    /\ fn_result' = <<Return(exit_loop)>>
    /\ UNCHANGED not_fn

Call_my_custom_tool ==
    /\ \E param1 \in Params1, param2 \in Params2, do_something \in DoSomething :
         /\ fn_call' = <<[tool |-> "my_custom_tool",
                          args |-> <<param1, param2>>,
                          do_something |-> do_something]>>
         /\ fn_result' = <<my_custom_tool(param1, param2, do_something)>>
    /\ UNCHANGED not_fn

\* one of the three approval tools called as a function: what the caller
\* gets back is the dict the tool returns
Call_approval_tool ==
    /\ \E tool \in GateTools, n \in Counts, c \in Confirmations :
         \E text \in IF tool = "my_lro_tool" THEN {""}
                     ELSE IF tool = "place_shipping_order" THEN Destinations
                     ELSE Descriptions :
           /\ fn_call' = <<[tool |-> tool, args |-> <<n, text>>,
                            tool_confirmation |-> c]>>
           /\ fn_result' = <<Return(CallTool(tool, n, text, c).ret)>>
    /\ UNCHANGED not_fn

FnInit ==
    /\ fn_call = <<>>
    /\ fn_result = <<>>

FnNext ==
    \/ Call_get_fee_for_payment_method
    \/ Call_get_exchange_rate
    \/ Call_exit_loop
    \/ Call_my_custom_tool
    \/ Call_approval_tool

----------------------------------------------------------------------------
(* Day1/task2_multi_agent_systems/parallel_workflow.py *)

Researchers == {"TechResearcher", "HealthResearcher", "FinanceResearcher"}

\* output keys of which two researchers share one
OutputKey_Shared(agent) ==
    CASE agent = "TechResearcher" -> "tech_research"
      [] agent = "HealthResearcher" -> "tech_research"
      [] agent = "FinanceResearcher" -> "finance_research"
      [] agent = "AggregatorAgent" -> "executive_summary"

\* output_key of each researcher
OutputKey(agent) ==
    CASE agent = "TechResearcher" -> "tech_research"
      [] agent = "HealthResearcher" -> "health_research"
      [] agent = "FinanceResearcher" -> "finance_research"
      [] agent = "AggregatorAgent" -> "executive_summary"

\* the {placeholders} of aggregator_agent's instruction
AggregatorReads == {"tech_research", "health_research", "finance_research"}

Reports == {<<"report", i>> : i \in 1..NumReports}

\* ParallelAgent completing as soon as one of its sub-agents has
ParallelComplete_FirstDone(progress) ==
    \E r \in Researchers : progress[r] = "done"

\* ParallelAgent has completed: every sub-agent has
ParallelComplete(progress) ==
    \A r \in Researchers : progress[r] = "done"

\* one entry per finished agent: the keys the state held when it started and
\* what it stored (<<>> when it stored nothing)
LogEntry(agent, st, stored) ==
    [agent |-> agent, keys_at_start |-> DOMAIN st, stored |-> stored]

\* ParallelResearchTeam starts its three sub-agents together
ParallelStart ==
    /\ research_pc = "start"
    /\ research_pc' = "ParallelResearchTeam"
    /\ branch' = [r \in Researchers |-> "running"]
    /\ UNCHANGED <<research_state, research_log>>
    /\ UNCHANGED not_research

\* a researcher calls google_search (its state does not change the session)
ResearcherSearch ==
    /\ \E r \in Researchers :
         /\ branch[r] = "running"
         /\ branch' = [branch EXCEPT ![r] = "searched"]
    /\ UNCHANGED <<research_pc, research_state, research_log>>
    /\ UNCHANGED not_research

\* a researcher gives its final response, stored under its output_key
ResearcherFinish ==
    /\ \E r \in Researchers, report \in Reports :
         /\ branch[r] \in {"running", "searched"}
         /\ branch' = [branch EXCEPT ![r] = "done"]
         /\ research_state' = Put(research_state, OutputKey(r), report)
         /\ research_log' = Append(research_log,
                                   LogEntry(r, research_state,
                                            <<OutputKey(r), report>>))
    /\ UNCHANGED research_pc
    /\ UNCHANGED not_research

\* ResearchSystem moves on to its second sub-agent when the first, the
\* ParallelAgent, has completed
ParallelJoin ==
    /\ research_pc = "ParallelResearchTeam"
    /\ ParallelComplete(branch)
    /\ research_pc' = "AggregatorAgent"
    /\ UNCHANGED <<branch, research_state, research_log>>
    /\ UNCHANGED not_research

\* AggregatorAgent: its instruction is filled from the state (a placeholder
\* whose key is missing fails the run), its answer goes to executive_summary
AggregatorAgent ==
    /\ research_pc = "AggregatorAgent"
    /\ IF AggregatorReads \subseteq DOMAIN research_state
       THEN /\ \E summary \in Reports :
                 /\ research_state' = Put(research_state,
                                          OutputKey("AggregatorAgent"), summary)
                 /\ research_log' =
                       Append(research_log,
                              LogEntry("AggregatorAgent", research_state,
                                       <<OutputKey("AggregatorAgent"), summary>>))
            /\ research_pc' = "done"
       ELSE /\ research_pc' = "failed"
            /\ research_log' =
                  Append(research_log,
                         LogEntry("AggregatorAgent", research_state, <<>>))
            /\ UNCHANGED research_state
    /\ UNCHANGED branch
    /\ UNCHANGED not_research

ResearchInit ==
    /\ research_pc = "start"
    /\ branch = [r \in Researchers |-> "idle"]
    /\ research_state = EmptyState
    /\ research_log = <<>>

ResearchNext ==
    \/ ParallelStart
    \/ ResearcherSearch
    \/ ResearcherFinish
    \/ ParallelJoin
    \/ AggregatorAgent

----------------------------------------------------------------------------
(* Day1/task2_multi_agent_systems/sequential_workflow.py *)

\* sub_agents of BlogPipeline with the first two exchanged
BlogPipeline_Swapped == <<"WriterAgent", "OutlineAgent", "EditorAgent">>

\* sub_agents of BlogPipeline, in list order
BlogPipeline == <<"OutlineAgent", "WriterAgent", "EditorAgent">>

\* output_key of each agent
BlogOutputKey(agent) ==
    CASE agent = "OutlineAgent" -> "blog_outline"
      [] agent = "WriterAgent" -> "blog_draft"
      [] agent = "EditorAgent" -> "final_blog"

\* the {placeholders} of each agent's instruction
BlogReads(agent) ==
    CASE agent = "OutlineAgent" -> {}
      [] agent = "WriterAgent" -> {"blog_outline"}
      [] agent = "EditorAgent" -> {"blog_draft"}

BlogTexts == {<<"text", i>> : i \in 1..NumBlogTexts}

\* SequentialAgent: the sub-agent after `agent` in the list, "done" after the
\* last one
BlogAfter(agent) ==
    LET i == CHOOSE j \in DOMAIN BlogPipeline : BlogPipeline[j] = agent IN
    IF i < Len(BlogPipeline) THEN BlogPipeline[i + 1] ELSE "done"

BlogStep(agent, before, after) ==
    [agent |-> agent, before |-> before, after |-> after]

\* OutlineAgent: no placeholder, its answer goes to blog_outline
OutlineAgent ==
    /\ blog_pc = "OutlineAgent"
    /\ \E text \in BlogTexts :
         LET after == Put(blog_state, BlogOutputKey("OutlineAgent"), text) IN
         /\ blog_state' = after
         /\ blog_log' = Append(blog_log, BlogStep("OutlineAgent", blog_state, after))
    /\ blog_pc' = BlogAfter("OutlineAgent")
    /\ UNCHANGED not_blog

\* WriterAgent: its instruction is filled from blog_outline (a placeholder
\* whose key is missing fails the run), its answer goes to blog_draft
WriterAgent ==
    /\ blog_pc = "WriterAgent"
    /\ IF BlogReads("WriterAgent") \subseteq DOMAIN blog_state
       THEN /\ \E text \in BlogTexts :
                 LET after == Put(blog_state, BlogOutputKey("WriterAgent"), text) IN
                 /\ blog_state' = after
                 /\ blog_log' = Append(blog_log,
                                       BlogStep("WriterAgent", blog_state, after))
            /\ blog_pc' = BlogAfter("WriterAgent")
       ELSE /\ blog_pc' = "failed"
            /\ blog_log' = Append(blog_log,
                                  BlogStep("WriterAgent", blog_state, blog_state))
            /\ UNCHANGED blog_state
    /\ UNCHANGED not_blog

\* EditorAgent: its instruction is filled from blog_draft, its answer goes to
\* final_blog
EditorAgent ==
    /\ blog_pc = "EditorAgent"
    /\ IF BlogReads("EditorAgent") \subseteq DOMAIN blog_state
       THEN /\ \E text \in BlogTexts :
                 LET after == Put(blog_state, BlogOutputKey("EditorAgent"), text) IN
                 /\ blog_state' = after
                 /\ blog_log' = Append(blog_log,
                                       BlogStep("EditorAgent", blog_state, after))
            /\ blog_pc' = BlogAfter("EditorAgent")
       ELSE /\ blog_pc' = "failed"
            /\ blog_log' = Append(blog_log,
                                  BlogStep("EditorAgent", blog_state, blog_state))
            /\ UNCHANGED blog_state
    /\ UNCHANGED not_blog

BlogInit ==
    /\ blog_pc = BlogPipeline[1]
    /\ blog_state = EmptyState
    /\ blog_log = <<>>

BlogNext ==
    \/ OutlineAgent
    \/ WriterAgent
    \/ EditorAgent

----------------------------------------------------------------------------
(* Day1/task2_multi_agent_systems/llm_orchestration.py                     *)
(* ResearchCoordinator is one Agent whose tools are its two sub-agents      *)
(* wrapped in AgentTool: a call of such a tool runs the sub-agent on the   *)
(* state of the session and brings back what it stored.  Which tool is     *)
(* called, and when, is decided by the coordinator's model ("LLM decides   *)
(* workflow"); its instruction lists three steps, and the file notes that  *)
(* the model "might skip steps".  A run either keeps to the steps or not.  *)

\* the {placeholders} of summarizer_agent's instruction, were there none
SummarizerReads_Nothing == {}

\* the {placeholders} of summarizer_agent's instruction
SummarizerReads == {"research_findings"}

\* the coordinator's model may call ResearchAgent now: any time when it
\* decides freely, as step 1 when it keeps to its instruction
MayCallResearch ==
    coord_follows => coord_log = <<>>

\* step 2 of the instruction: after the research findings have come back
MayCallSummarizer ==
    coord_follows =>
        /\ "research_findings" \in DOMAIN coord_state
        /\ "final_summary" \notin DOMAIN coord_state

\* step 3 of the instruction: present the final summary
MayRespond ==
    coord_follows => "final_summary" \in DOMAIN coord_state

ToolCallsMade ==
    Len(SelectSeq(coord_log, LAMBDA e : e.agent # "ResearchCoordinator"))

\* runner.run_debug(query): the coordinator's model gets the query
CoordStart ==
    /\ coord_pc = "start"
    /\ coord_pc' = "model"
    /\ coord_follows' \in BOOLEAN
    /\ UNCHANGED <<coord_state, coord_log>>
    /\ UNCHANGED not_coord

\* the model calls the ResearchAgent tool: research_agent runs and its
\* answer is stored under research_findings
CallResearchAgent ==
    /\ coord_pc = "model"
    /\ ToolCallsMade < MaxCoordCalls
    /\ MayCallResearch
    /\ \E findings \in Reports :
         /\ coord_state' = Put(coord_state, "research_findings", findings)
         /\ coord_log' = Append(coord_log,
                                LogEntry("ResearchAgent", coord_state,
                                         <<"research_findings", findings>>))
    /\ UNCHANGED <<coord_pc, coord_follows>>
    /\ UNCHANGED not_coord

\* the model calls the SummarizerAgent tool: summarizer_agent's instruction
\* is filled from the state (a placeholder whose key is missing fails the
\* run), its answer is stored under final_summary
CallSummarizerAgent ==
    /\ coord_pc = "model"
    /\ ToolCallsMade < MaxCoordCalls
    /\ MayCallSummarizer
    /\ IF SummarizerReads \subseteq DOMAIN coord_state
       THEN /\ \E summary \in Reports :
                 /\ coord_state' = Put(coord_state, "final_summary", summary)
                 /\ coord_log' = Append(coord_log,
                                        LogEntry("SummarizerAgent", coord_state,
                                                 <<"final_summary", summary>>))
            /\ UNCHANGED coord_pc
       ELSE /\ coord_pc' = "failed"
            /\ coord_log' = Append(coord_log,
                                   LogEntry("SummarizerAgent", coord_state, <<>>))
            /\ UNCHANGED coord_state
    /\ UNCHANGED coord_follows
    /\ UNCHANGED not_coord

\* the model gives its final response (root_agent has no output_key)
CoordRespond ==
    /\ coord_pc = "model"
    /\ MayRespond
    /\ coord_pc' = "done"
    /\ coord_log' = Append(coord_log,
                           LogEntry("ResearchCoordinator", coord_state, <<>>))
    /\ UNCHANGED <<coord_state, coord_follows>>
    /\ UNCHANGED not_coord

CoordInit ==
    /\ coord_pc = "start"
    /\ coord_follows = TRUE
    /\ coord_state = EmptyState
    /\ coord_log = <<>>

CoordNext ==
    \/ CoordStart
    \/ CallResearchAgent
    \/ CallSummarizerAgent
    \/ CoordRespond

----------------------------------------------------------------------------
(* Claims about the story refinement loop *)

EventsOf(agent) ==
    {i \in DOMAIN story_events : story_events[i].agent = agent}

\* the critic turns that answered with the exact sentinel
Approvals ==
    {i \in EventsOf("CriticAgent") : story_events[i].critique = SENTINEL}

\* C1: once the critique of iteration k is exactly "APPROVED", the refiner of
\* iteration k calls exit_loop and the loop ends there: no turn of a later
\* iteration is ever recorded.
C1_ApprovalStopsLoop ==
    \A i \in Approvals :
        LET k == story_events[i].iteration IN
        /\ \A j \in EventsOf("RefinerAgent") :
               story_events[j].iteration = k =>
                  story_events[j].calls = <<"exit_loop">>
        /\ \A j \in DOMAIN story_events : story_events[j].iteration <= k

\* C2: when the critic never answers with the sentinel, neither agent runs
\* more than max_iterations times, the pipeline can always take its next step
\* until it is done, and when it is done CriticAgent and RefinerAgent have
\* each run exactly max_iterations times.
C2_ExactlyMaxIterations ==
    Approvals = {} =>
        /\ Cardinality(EventsOf("CriticAgent")) <= max_iterations
        /\ Cardinality(EventsOf("RefinerAgent")) <= max_iterations
        /\ story_pc # "done" => ENABLED StoryNext
        /\ story_pc = "done" =>
              /\ Cardinality(EventsOf("CriticAgent")) = max_iterations
              /\ Cardinality(EventsOf("RefinerAgent")) = max_iterations
              /\ times_looped = max_iterations

C2_Witness ==
    /\ story_pc = "done"
    /\ Approvals = {}
    /\ Cardinality(EventsOf("RefinerAgent")) = max_iterations

\* C3: from the critic turn that approved a draft onwards current_story keeps
\* that draft: the refiner turn of that iteration does not write the key, and
\* the value the loop ends with is the approved draft.
C3_ApprovedDraftIsOutput ==
    \A i \in Approvals :
        \A j \in DOMAIN story_events :
            j > i => story_events[j].story = story_events[i].story

----------------------------------------------------------------------------
(* Claims about the approval-gate tools, on direct calls *)

\* the id field a tool puts in an "approved" dict, with the given suffix word
ApprovedId(tool, ret) ==
    CASE tool = "my_lro_tool" -> ret.id
      [] tool = "place_shipping_order" -> ret.order_id
      [] tool = "generate_images_with_approval" -> ret.generation_id

ExpectedId(tool, count, who) ==
    CASE tool = "my_lro_tool" -> <<who \o "-", count>>
      [] tool = "place_shipping_order" -> <<"ORD-", count, "-" \o who>>
      [] tool = "generate_images_with_approval" -> <<"IMG-", count, "-" \o who>>

\* the payload of a confirmation request carries the arguments of the call
PayloadCarriesArgs(call, payload) ==
    CASE call.tool = "my_lro_tool" -> payload.item_count = call.count
      [] call.tool = "place_shipping_order" ->
             /\ payload.num_containers = call.count
             /\ payload.destination = call.text
      [] call.tool = "generate_images_with_approval" ->
             /\ payload.num_images = call.count
             /\ payload.description = call.text

\* C4: a call with count <= threshold returns "approved" with the AUTO id and
\* makes no confirmation request, whatever tool_confirmation holds.
C4_AtOrBelowThresholdAutoApproved ==
    \A i \in DOMAIN tool_call :
        LET call == tool_call[i]
            ret == tool_result[i] IN
        call.count <= Threshold(call.tool) =>
            /\ ret.status = "approved"
            /\ ApprovedId(call.tool, ret) = ExpectedId(call.tool, call.count, "AUTO")
            /\ tool_requests = <<>>

\* a call exactly at the threshold, made with a rejecting confirmation present
C4_Witness ==
    /\ tool_call # <<>>
    /\ tool_call[1].tool = "place_shipping_order"
    /\ tool_call[1].count = LARGE_ORDER_THRESHOLD
    /\ tool_call[1].confirmation = <<[confirmed |-> FALSE]>>
    /\ tool_result[1].status = "approved"

\* C5: a call with count > threshold and no confirmation returns "pending"
\* and makes exactly one confirmation request, whose payload carries the
\* call's own arguments.
C5_OverThresholdFirstCallPending ==
    \A i \in DOMAIN tool_call :
        LET call == tool_call[i]
            ret == tool_result[i] IN
        (call.count > Threshold(call.tool) /\ call.confirmation = <<>>) =>
            /\ ret.status = "pending"
            /\ Len(tool_requests) = 1
            /\ PayloadCarriesArgs(call, tool_requests[1].payload)

\* the smallest bulk image request, first call
C5_Witness ==
    /\ tool_call # <<>>
    /\ tool_call[1].tool = "generate_images_with_approval"
    /\ tool_call[1].count = BULK_IMAGE_THRESHOLD + 1
    /\ tool_call[1].confirmation = <<>>
    /\ tool_result[1].status = "pending"
    /\ Len(tool_requests) = 1

\* C6: a call with count > threshold and a confirmation present returns
\* "approved" with the HUMAN id exactly when confirmed is true, "rejected"
\* exactly when it is false, and makes no confirmation request.
C6_ResumedCallFollowsDecision ==
    \A i \in DOMAIN tool_call :
        LET call == tool_call[i]
            ret == tool_result[i] IN
        (call.count > Threshold(call.tool) /\ call.confirmation # <<>>) =>
            /\ ret.status \in {"approved", "rejected"}
            /\ ret.status = "approved" <=> call.confirmation[1].confirmed
            /\ ret.status = "rejected" <=> ~call.confirmation[1].confirmed
            /\ ret.status = "approved" =>
                  ApprovedId(call.tool, ret) = ExpectedId(call.tool, call.count, "HUMAN")
            /\ tool_requests = <<>>

\* a resumed call of the template tool that the approver turned down
C6_Witness ==
    /\ tool_call # <<>>
    /\ tool_call[1].tool = "my_lro_tool"
    /\ tool_call[1].count = APPROVAL_THRESHOLD + 1
    /\ tool_call[1].confirmation = <<[confirmed |-> FALSE]>>
    /\ tool_result[1].status = "rejected"

----------------------------------------------------------------------------
(* Claims about the approval gate under a resumable runner *)

\* C7: every gated call has moved NOT_REQUESTED -> APPROVED (only at or below
\* the threshold), or NOT_REQUESTED -> PENDING and from there at most once on
\* to APPROVED or REJECTED; a PENDING gate has its request recorded; an
\* over-threshold call is APPROVED or REJECTED only after having been PENDING
\* with a recorded request and a decision; nothing follows APPROVED or REJECTED.
C7_GateTransitions ==
    \A i \in DOMAIN gate_calls :
        LET g == gate_calls[i] IN
        /\ g.history \in {<<"NOT_REQUESTED", "APPROVED">>,
                          <<"NOT_REQUESTED", "PENDING">>,
                          <<"NOT_REQUESTED", "PENDING", "APPROVED">>,
                          <<"NOT_REQUESTED", "PENDING", "REJECTED">>}
        /\ g.history = <<"NOT_REQUESTED", "APPROVED">> <=>
              g.count <= Threshold(g.tool)
        /\ g.history[2] = "PENDING" =>
              /\ Len(g.requests) = 1
              /\ PayloadCarriesArgs(g, g.requests[1].payload)
        /\ (g.count > Threshold(g.tool) /\ g.status \in {"APPROVED", "REJECTED"}) =>
              /\ g.history[2] = "PENDING"
              /\ Len(g.decisions) = 1
              /\ g.status = "APPROVED" <=> g.decisions[1]

\* a shipping order that waited at the gate and was then turned down, next to
\* an image request that waited and was approved
C7_Witness ==
    /\ Len(gate_calls) = 2
    /\ gate_calls[1].tool = "place_shipping_order"
    /\ gate_calls[1].history = <<"NOT_REQUESTED", "PENDING", "REJECTED">>
    /\ gate_calls[2].tool = "generate_images_with_approval"
    /\ gate_calls[2].history = <<"NOT_REQUESTED", "PENDING", "APPROVED">>

----------------------------------------------------------------------------
(* Claims about run_image_generation_workflow *)

\* the run_async calls after the first one: the resume calls
ResumeRuns == {r \in DOMAIN wf_runs : r > 1}

\* the gates that asked for confirmation in the first turn
AskedGates == {j \in DOMAIN wf_gates : wf_gates[j].history[2] = "PENDING"}

\* the answers typed so far that get_human_approval accepts
ValidAnswers ==
    {i \in DOMAIN wf_inputs :
        StripLower(wf_inputs[i]) \in
            {<<"y", "e", "s">>, <<"y">>, <<"n", "o">>, <<"n">>}}

\* C8: every resume call is made for the session_id and user_id of the first
\* call, passes the invocation_id of the suspended run, which is the
\* invocation_id of an event that carries a confirmation request, and answers
\* with a function response named adk_request_confirmation whose id is the
\* function-call id of that request, a request recorded by a gate.
C8_ResumeCorrelation ==
    \A r \in ResumeRuns :
        LET run == wf_runs[r]
            answer == run.new_message.parts[1].function_response[1] IN
        /\ run.session_id = wf_runs[1].session_id
        /\ run.user_id = wf_runs[1].user_id
        /\ run.invocation_id = <<wf_runs[1].assigned_invocation>>
        /\ answer.name = CONFIRMATION_NAME
        /\ \E p \in RequestPositions(wf_events) :
              LET event == wf_events[p[1]] IN
              /\ event.content[1].parts[p[2]].function_call[1].id = answer.id
              /\ <<event.invocation_id>> = run.invocation_id
        /\ \E j \in AskedGates : wf_gates[j].request_id = <<answer.id>>

\* a finished run that was suspended on two requests and resumed
C8_Witness ==
    /\ wf_pc = "done"
    /\ Len(wf_runs) = 2
    /\ Cardinality(AskedGates) = 2

\* C9 as stated: the workflow never settles a pending request on its own: a
\* resume call is made, and a gate leaves PENDING, only after the approver
\* has entered a decision at the prompt.
C9_NoDecisionWithoutApprover ==
    /\ ResumeRuns # {} => ValidAnswers # {}
    /\ \A j \in AskedGates :
          wf_gates[j].status # "PENDING" => ValidAnswers # {}

\* C9 as amended: a suspended request stays PENDING until the workflow's one
\* resume call delivers the decision; in interactive mode the decision is the
\* approver's accepted answer, and as long as none has been entered no resume
\* call is made, the request stays PENDING and only the prompt can go on; in
\* non-interactive mode the decision is the auto_approve argument, applied
\* without any answer being asked for.
C9_PendingUntilDecision ==
    /\ \A j \in AskedGates :
          LET g == wf_gates[j] IN
          /\ g.status # "PENDING" =>
                /\ Len(wf_runs) = 2
                /\ wf_approved # <<>>
                /\ g.decisions = wf_approved
                /\ g.status = IF wf_approved[1] THEN "APPROVED" ELSE "REJECTED"
          /\ (wf_args.interactive /\ ValidAnswers = {}) =>
                /\ g.status = "PENDING"
                /\ wf_approved = <<>>
                /\ ResumeRuns = {}
                /\ wf_pc \in {"check", "input"}
    /\ (wf_args.interactive /\ wf_approved # <<>>) =>
          /\ ValidAnswers = {Len(wf_inputs)}
          /\ wf_approved = get_human_approval(wf_inputs[Len(wf_inputs)])
    /\ (wf_pc # "start" /\ ~wf_args.interactive) =>
          /\ wf_inputs = <<>>
          /\ wf_approved \in {<<>>, <<wf_args.auto_approve>>}
    /\ wf_pc = "input" =>
          ~ENABLED WfResume /\ ~ENABLED WfDisplay /\ ~ENABLED WfCheckApproval

\* an interactive run: one answer that is not accepted, then a refusal
C9_Witness ==
    /\ wf_args.interactive
    /\ Len(wf_inputs) = 2
    /\ ValidAnswers = {2}
    /\ AskedGates # {}
    /\ \E j \in AskedGates : wf_gates[j].status = "REJECTED"

----------------------------------------------------------------------------
(* Claims about ResearchSystem *)

AggregatorEntries ==
    {i \in DOMAIN research_log : research_log[i].agent = "AggregatorAgent"}

\* C10: at the moment AggregatorAgent is about to run, and ever after, all
\* three researchers have completed and the state holds tech_research,
\* health_research and finance_research; the state it started from held all
\* three, it comes after every researcher in the order of completion, and it
\* never fails on a missing key.
C10_AggregatorAfterAllBranches ==
    /\ research_pc \in {"AggregatorAgent", "done", "failed"} =>
          /\ \A r \in Researchers : branch[r] = "done"
          /\ AggregatorReads \subseteq DOMAIN research_state
    /\ \A i \in AggregatorEntries :
          /\ AggregatorReads \subseteq research_log[i].keys_at_start
          /\ \A r \in Researchers :
                \E k \in 1..(i - 1) : research_log[k].agent = r
    /\ research_pc # "failed"

\* the aggregator has run after the branches finished in an order that is
\* not the order of the sub_agents list
C10_Witness ==
    /\ research_pc = "done"
    /\ Len(research_log) = 4
    /\ research_log[1].agent = "FinanceResearcher"
    /\ research_log[2].agent = "TechResearcher"
    /\ research_log[3].agent = "HealthResearcher"
    /\ research_log[4].agent = "AggregatorAgent"

\* the entry of research_log that researcher r made
EntryOf(r) == CHOOSE i \in DOMAIN research_log : research_log[i].agent = r

\* C11: the three researchers have pairwise distinct output keys; each
\* finished branch stored exactly its own key (the keys the next agent found
\* are those this one found plus its own key); and once all three branches
\* have finished, in whatever order, the state holds exactly the three
\* research keys, each with the report its own branch wrote.
C11_BranchesIndependent ==
    /\ \A r1, r2 \in Researchers : r1 # r2 => OutputKey(r1) # OutputKey(r2)
    /\ \A i \in DOMAIN research_log :
          research_log[i].agent \in Researchers =>
             /\ research_log[i].stored[1] = OutputKey(research_log[i].agent)
             /\ i < Len(research_log) =>
                   research_log[i + 1].keys_at_start =
                      research_log[i].keys_at_start
                         \cup {OutputKey(research_log[i].agent)}
    /\ (research_pc \in {"ParallelResearchTeam", "AggregatorAgent"}
          /\ \A r \in Researchers : branch[r] = "done") =>
             /\ DOMAIN research_state = {OutputKey(r) : r \in Researchers}
             /\ \A r \in Researchers :
                   research_state[OutputKey(r)] = research_log[EntryOf(r)].stored[2]

\* the parallel stage is over, HealthResearcher finished first and
\* TechResearcher last, and they wrote different reports
C11_Witness ==
    /\ research_pc = "AggregatorAgent"
    /\ Len(research_log) = 3
    /\ research_log[1].agent = "HealthResearcher"
    /\ research_log[3].agent = "TechResearcher"
    /\ research_log[1].stored[2] # research_log[3].stored[2]

----------------------------------------------------------------------------
(* Claims about the plain function tools *)

\* str equals the lower-case name ignoring case
SameIgnoringCase(str, name) ==
    /\ Len(str) = Len(name)
    /\ \A i \in 1..Len(name) : str[i] = name[i] \/ str[i] = Upper(name[i])

CallsOf(tool) == {i \in DOMAIN fn_call : fn_call[i].tool = tool}

\* the three known methods with their fees, in thousandths
KnownFees ==
    (<<"p", "l", "a", "t", "i", "n", "u", "m", " ", "c", "r", "e", "d", "i", "t",
       " ", "c", "a", "r", "d">> :> 20)
    @@ (<<"g", "o", "l", "d", " ", "d", "e", "b", "i", "t", " ", "c", "a", "r", "d">> :> 35)
    @@ (<<"b", "a", "n", "k", " ", "t", "r", "a", "n", "s", "f", "e", "r">> :> 10)

\* C12: get_fee_for_payment_method returns success with the method's fee
\* (0.02, 0.035, 0.01) for every string that equals a known method name
\* ignoring case, and for every other string the error record whose message
\* quotes the method as it was given; it never raises.
C12_FeeLookupIgnoresCase ==
    \A i \in CallsOf("get_fee_for_payment_method") :
        LET method == fn_call[i].args[1]
            known == {k \in DOMAIN KnownFees : SameIgnoringCase(method, k)} IN
        /\ fn_result[i].raised = <<>>
        /\ \A k \in known :
              fn_result[i].ret[1] =
                 [status |-> "success", fee_percentage |-> KnownFees[k]]
        /\ known = {} =>
              fn_result[i].ret[1] =
                 [status |-> "error",
                  error_message |-> <<"Payment method '", method, "' not found">>]

\* the call of the documented example, "Gold Debit Card"
C12_Witness ==
    /\ fn_call # <<>>
    /\ fn_call[1].tool = "get_fee_for_payment_method"
    /\ fn_call[1].args[1] = <<"G", "o", "l", "d", " ", "D", "e", "b", "i", "t", " ", "C", "a", "r", "d">>
    /\ fn_result[1].ret[1].status = "success"
    /\ fn_result[1].ret[1].fee_percentage = 35

\* the supported targets of base usd with their rates, in hundredths
KnownRates == (<<"e", "u", "r">> :> 93) @@ (<<"j", "p", "y">> :> 15750)
              @@ (<<"i", "n", "r">> :> 8358)

\* C13: get_exchange_rate never raises; it returns success with the table's
\* rate exactly when the base is usd and the target is eur, jpy or inr, both
\* ignoring case, and for every other pair the error record "Unsupported
\* pair: <base>/<target>" with both codes as they were given.
C13_UnsupportedPairIsErrorRecord ==
    \A i \in CallsOf("get_exchange_rate") :
        LET base == fn_call[i].args[1]
            target == fn_call[i].args[2]
            known == IF SameIgnoringCase(base, <<"u", "s", "d">>)
                     THEN {k \in DOMAIN KnownRates : SameIgnoringCase(target, k)}
                     ELSE {} IN
        /\ fn_result[i].raised = <<>>
        /\ \A k \in known :
              fn_result[i].ret[1] = [status |-> "success", rate |-> KnownRates[k]]
        /\ known = {} =>
              fn_result[i].ret[1] =
                 [status |-> "error",
                  error_message |-> <<"Unsupported pair: ", base, "/", target>>]

\* the reverse direction of a supported pair, EUR/USD, is an error record
C13_Witness ==
    /\ fn_call # <<>>
    /\ fn_call[1].tool = "get_exchange_rate"
    /\ fn_call[1].args = <<<<"E", "U", "R">>, <<"U", "S", "D">>>>
    /\ fn_result[1].raised = <<>>
    /\ fn_result[1].ret[1].status = "error"

StatusValues == {"success", "error", "approved", "pending", "rejected"}

\* C14: every call of a tool function returns (it does not raise) a record
\* with a status field whose value is one of success, error, approved,
\* pending, rejected.
C14_EveryToolReturnsStatus ==
    \A i \in DOMAIN fn_call :
        /\ fn_result[i].raised = <<>>
        /\ "status" \in DOMAIN fn_result[i].ret[1]
        /\ fn_result[i].ret[1].status \in StatusValues

\* exit_loop has been called and has returned its record
C14_Witness ==
    /\ fn_call # <<>>
    /\ fn_call[1].tool = "exit_loop"
    /\ fn_result[1].ret # <<>>
    /\ fn_result[1].ret[1].status = "approved"

\* C15: my_custom_tool never raises.  An empty param1 gives the error record
\* "param1 is required"; otherwise a ValueError (or a subclass of it) raised
\* by do_something gives "Validation error: " with its message, any other
\* error gives "Unexpected error: " with its message, and success is
\* returned only when do_something returned.
C15_CustomToolCatchesFaults ==
    \A i \in CallsOf("my_custom_tool") :
        LET param1 == fn_call[i].args[1]
            did == fn_call[i].do_something.does
            res == fn_result[i] IN
        /\ res.raised = <<>>
        /\ param1 = "" =>
              res.ret[1] = [status |-> "error",
                            error_message |-> "param1 is required"]
        /\ (param1 # "" /\ did.raised # <<>>) =>
              res.ret[1] =
                 [status |-> "error",
                  error_message |->
                     <<IF did.raised[1].type \in {"ValueError", "UnicodeError"}
                       THEN "Validation error: " ELSE "Unexpected error: ",
                       did.raised[1].msg>>]
        /\ res.ret[1].status = "success" => (param1 # "" /\ did.raised = <<>>)

\* the file as it stands, called with a param1: do_something is unbound, the
\* NameError is caught by the second except clause
C15_Witness ==
    /\ fn_call # <<>>
    /\ fn_call[1].tool = "my_custom_tool"
    /\ fn_call[1].args[1] # ""
    /\ ~fn_call[1].do_something.bound
    /\ fn_result[1].raised = <<>>
    /\ fn_result[1].ret[1].error_message[1] = "Unexpected error: "

----------------------------------------------------------------------------
(* Claims about BlogPipeline *)

\* C16: the agents that have run are OutlineAgent, WriterAgent, EditorAgent
\* in this order, each once (the run is over exactly when all three have);
\* every key an agent reads was in the state when it started and the run
\* never fails on a missing key; the state after the three steps holds
\* {blog_outline}, {blog_outline, blog_draft}, {blog_outline, blog_draft,
\* final_blog}; and a step leaves every key it found with the value it had.
C16_BlogPipelineInOrder ==
    /\ blog_pc # "failed"
    /\ Len(blog_log) <= 3
    /\ blog_pc = "done" <=> Len(blog_log) = 3
    /\ \A i \in DOMAIN blog_log :
          LET step == blog_log[i] IN
          /\ step.agent = <<"OutlineAgent", "WriterAgent", "EditorAgent">>[i]
          /\ (i = 2 => "blog_outline" \in DOMAIN step.before)
          /\ (i = 3 => "blog_draft" \in DOMAIN step.before)
          /\ DOMAIN step.after =
                <<{"blog_outline"}, {"blog_outline", "blog_draft"},
                  {"blog_outline", "blog_draft", "final_blog"}>>[i]
          /\ \A k \in DOMAIN step.before : step.after[k] = step.before[k]
          /\ (i > 1 => step.before = blog_log[i - 1].after)
    /\ blog_log # <<>> => blog_state = blog_log[Len(blog_log)].after

\* a whole run, in which the editor changed the draft
C16_Witness ==
    /\ blog_pc = "done"
    /\ Len(blog_log) = 3
    /\ DOMAIN blog_state = {"blog_outline", "blog_draft", "final_blog"}
    /\ blog_state["final_blog"] # blog_state["blog_draft"]

----------------------------------------------------------------------------
(* Claims about the turns of the story refinement loop *)

C18_WriterOnceCriticBeforeRefiner ==
    /\ story_pc = "InitialWriterAgent" <=> story_events = <<>>
    /\ EventsOf("InitialWriterAgent") = {1} \cap DOMAIN story_events
    /\ story_events # <<>> =>
          /\ story_events[1].text # <<>>
          /\ story_events[1].story = story_events[1].text[1]
    /\ \A j \in EventsOf("RefinerAgent") :
          /\ j > 2
          /\ story_events[j - 1].agent = "CriticAgent"
          /\ story_events[j - 1].iteration = story_events[j].iteration
          /\ story_events[j].critique = story_events[j - 1].text[1]
          /\ story_events[j - 1].story = story_events[j - 2].story
    /\ \A j \in EventsOf("CriticAgent") :
          /\ j > 1
          /\ IF story_events[j].iteration = 1
             THEN story_events[j - 1].agent = "InitialWriterAgent"
             ELSE /\ story_events[j - 1].agent = "RefinerAgent"
                  /\ story_events[j - 1].iteration = story_events[j].iteration - 1
          /\ story_events[j].story = story_events[j - 1].story

\* a whole run of two iterations in which the refiner rewrote the story twice
C18_Witness ==
    /\ story_pc = "done"
    /\ Len(story_events) = 5
    /\ story_events[3].text # <<>>
    /\ story_events[5].text # <<>>
    /\ story_events[5].story # story_events[3].story

----------------------------------------------------------------------------
(* Claims about the steps of run_image_generation_workflow *)

\* the first run_async produced an event with an adk_request_confirmation call
RequestInFirstRun ==
    \E i \in DOMAIN wf_events :
        /\ wf_events[i].content # <<>>
        /\ \E n \in DOMAIN wf_events[i].content[1].parts :
              LET fc == wf_events[i].content[1].parts[n].function_call IN
              fc # <<>> /\ fc[1].name = "adk_request_confirmation"

\* the decision that resume call r sent
SentDecision(r) ==
    wf_runs[r].new_message.parts[1].function_response[1].response.confirmed

\* C19: the workflow makes at most one resume call, none before STEP 3 has
\* a decision; once STEP 3 is over it has made one exactly when
\* check_for_approval found a request, which is exactly when the events of
\* the initial call hold one; and in non-interactive mode the decision the
\* resume call sends is the auto_approve argument.
C19_ResumeIffRequestFound ==
    /\ Len(wf_runs) <= 2
    /\ wf_pc \in {"start", "check", "input", "resume"} => ResumeRuns = {}
    /\ wf_pc \in {"input", "resume", "display", "done"} =>
          (wf_approval_info # <<>> <=> RequestInFirstRun)
    /\ wf_pc \in {"display", "done"} =>
          (ResumeRuns # {} <=> wf_approval_info # <<>>)
    /\ \A r \in ResumeRuns :
          ~wf_args.interactive => SentDecision(r) = wf_args.auto_approve

\* TEST 3 of the file: a bulk request in non-interactive mode with
\* auto_approve False has been resumed with a rejection
C19_Witness ==
    /\ wf_pc = "done"
    /\ ~wf_args.interactive
    /\ ~wf_args.auto_approve
    /\ Len(wf_runs) = 2
    /\ SentDecision(2) = FALSE

\* C20: extract_and_display_images runs at most once and only in STEP 4; a
\* finished run has run it exactly when no approval was requested (and then
\* the decision variable was never bound, hence never read, and no resume
\* call was made) or the decision sent was an approval; a run with a
\* rejected request never runs it.
C20_DisplayUnlessRejected ==
    /\ wf_displayed \in {0, 1}
    /\ wf_pc # "done" => wf_displayed = 0
    /\ wf_pc = "done" =>
          IF RequestInFirstRun
          THEN /\ Len(wf_runs) = 2
               /\ wf_displayed = 1 <=> SentDecision(2)
          ELSE /\ wf_displayed = 1
               /\ wf_approved = <<>>
               /\ ResumeRuns = {}
    /\ (\E j \in DOMAIN wf_gates : wf_gates[j].status = "REJECTED") =>
          wf_displayed = 0

\* an interactive run in which the approver typed a no: the run is over and
\* nothing was displayed
C20_Witness ==
    /\ wf_pc = "done"
    /\ wf_args.interactive
    /\ wf_approved = <<FALSE>>
    /\ \E j \in DOMAIN wf_gates : wf_gates[j].status = "REJECTED"
    /\ wf_displayed = 0

----------------------------------------------------------------------------
(* Claims about check_for_approval *)

\* part n of event i of the list is a function call named
\* adk_request_confirmation
IsRequestAt(events, i, n) ==
    /\ i \in DOMAIN events
    /\ events[i].content # <<>>
    /\ n \in DOMAIN events[i].content[1].parts
    /\ events[i].content[1].parts[n].function_call # <<>>
    /\ events[i].content[1].parts[n].function_call[1].name
          = "adk_request_confirmation"

\* C21: check_for_approval returns None exactly when no part of any event of
\* the list is a function call named adk_request_confirmation; otherwise
\* its record has the id of the first such call, in event order and then
\* part order, as approval_id and the invocation id of that call's event as
\* invocation_id; events without content or parts are passed over and the
\* list is left as it was given.
C21_FirstRequestInOrder ==
    \A c \in DOMAIN chk_result :
        LET events == chk_result[c].given
            ret == chk_result[c].ret
            requests == {p \in (DOMAIN events) \X (1..3) :
                            IsRequestAt(events, p[1], p[2])} IN
        /\ chk_events = events
        /\ ret = <<>> <=> requests = {}
        /\ \A p \in requests :
              (\A q \in requests : p[1] < q[1] \/ (p[1] = q[1] /\ p[2] <= q[2])) =>
                 /\ ret[1].approval_id =
                       events[p[1]].content[1].parts[p[2]].function_call[1].id
                 /\ ret[1].invocation_id = events[p[1]].invocation_id

\* a list whose first event has no content and whose second holds two
\* requests: the record is that of the first part of the second event
C21_Witness ==
    /\ chk_result # <<>>
    /\ Len(chk_events) = 2
    /\ chk_events[1].content = <<>>
    /\ IsRequestAt(chk_events, 2, 1)
    /\ IsRequestAt(chk_events, 2, 2)
    /\ chk_result[1].ret # <<>>
    /\ chk_result[1].ret[1].approval_id = ConfirmId(1)

----------------------------------------------------------------------------
(* Claims about get_human_approval *)

\* the answers that read yes or y once blanks around them are dropped and
\* letters are put in lower case, and those that read no or n
YesAnswers == {<<"y", "e", "s">>, <<" ", "Y", " ">>}

NoAnswers == {<<"N", "o">>, <<"n", "\n">>}

\* C22: get_human_approval has returned exactly when the answer typed last
\* reads yes, y, no or n; it returned True exactly for yes or y and False
\* exactly for no or n; every answer before the last one read otherwise and
\* was followed by another prompt; and while no such answer has been typed
\* the function is still at its prompt.
C22_ApprovalPromptLoop ==
    wf_args.interactive =>
        /\ \A i \in DOMAIN wf_inputs :
              i < Len(wf_inputs) => wf_inputs[i] \notin YesAnswers \cup NoAnswers
        /\ wf_approved = <<TRUE>> <=>
              (wf_inputs # <<>> /\ wf_inputs[Len(wf_inputs)] \in YesAnswers)
        /\ wf_approved = <<FALSE>> <=>
              (wf_inputs # <<>> /\ wf_inputs[Len(wf_inputs)] \in NoAnswers)
        /\ wf_pc = "input" <=>
              /\ wf_approval_info # <<>>
              /\ wf_approved = <<>>
        /\ wf_inputs # <<>> => wf_approval_info # <<>>

\* "maybe" was typed and the prompt came again; then " Y " was typed and
\* the function returned True
C22_Witness ==
    /\ wf_args.interactive
    /\ Len(wf_inputs) = 2
    /\ wf_inputs[1] = <<"m", "a", "y", "b", "e">>
    /\ wf_inputs[2] = <<" ", "Y", " ">>
    /\ wf_approved = <<TRUE>>
    /\ wf_pc # "input"

----------------------------------------------------------------------------
(* Claims about ResearchCoordinator *)

CoordEntries(agent) ==
    {i \in DOMAIN coord_log : coord_log[i].agent = agent}

\* in this run every SummarizerAgent call came after a ResearchAgent call and
\* found research_findings, and the response came with final_summary stored
ResearchThenSummaryThenResponse ==
    /\ \A i \in CoordEntries("SummarizerAgent") :
          /\ "research_findings" \in coord_log[i].keys_at_start
          /\ \E k \in CoordEntries("ResearchAgent") : k < i
    /\ \A i \in CoordEntries("ResearchCoordinator") :
          "final_summary" \in coord_log[i].keys_at_start

----------------------------------------------------------------------------
(* Claims about a run with several confirmation requests *)

\* the gate whose request comes first among the events of the initial run
FirstAsked == CHOOSE j \in AskedGates : \A k \in AskedGates : j <= k

\* C24: when the initial run emitted more than one confirmation request, the
\* workflow takes one decision and makes one resume call, which answers the
\* first request; every later request is never answered: its gate has no
\* decision and is PENDING in every state, the end of the run included.
C24_OnlyFirstRequestAnswered ==
    Cardinality(AskedGates) > 1 =>
        /\ Len(wf_runs) <= 2
        /\ wf_pc = "done" => Len(wf_runs) = 2
        /\ wf_approval_info # <<>> =>
              <<wf_approval_info[1].approval_id>> = wf_gates[FirstAsked].request_id
        /\ \A r \in ResumeRuns :
              <<wf_runs[r].new_message.parts[1].function_response[1].id>>
                 = wf_gates[FirstAsked].request_id
        /\ Len(wf_runs) = 2 =>
              /\ wf_gates[FirstAsked].decisions = wf_approved
              /\ wf_gates[FirstAsked].status # "PENDING"
        /\ \A j \in AskedGates \ {FirstAsked} :
              /\ wf_gates[j].decisions = <<>>
              /\ wf_gates[j].status = "PENDING"

\* a finished run with two bulk requests: the first was approved, the
\* second is still pending
C24_Witness ==
    /\ wf_pc = "done"
    /\ AskedGates = {1, 2}
    /\ wf_gates[1].status = "APPROVED"
    /\ wf_gates[2].status = "PENDING"
    /\ wf_gates[2].decisions = <<>>

----------------------------------------------------------------------------
(* Claims about the end of the story refinement loop *)

\* C25: when the loop has stopped at the iteration ceiling, the last turn is
\* the refiner's turn of iteration max_iterations, current_story is the draft
\* that turn wrote, which no critic turn has seen, and the critique in the
\* state is the one the critic gave on the draft before it.
C25_CeilingLeavesUnreviewedDraft ==
    (story_pc = "done" /\ times_looped = max_iterations) =>
        LET n == Len(story_events)
            last == story_events[n] IN
        /\ last.agent = "RefinerAgent"
        /\ last.iteration = max_iterations
        /\ last.text # <<>>
        /\ story_state["current_story"] = last.text[1]
        /\ story_events[n - 1].agent = "CriticAgent"
        /\ story_state["critique"] = story_events[n - 1].text[1]
        /\ story_events[n - 1].story = story_events[n - 2].story

----------------------------------------------------------------------------

Init ==
    /\ StoryInit
    /\ ToolInit
    /\ FnInit
    /\ GateInit
    /\ WfInit
    /\ ResearchInit
    /\ BlogInit
    /\ ChkInit
    /\ CoordInit

SpecStory == Init /\ [][StoryNext]_vars

SpecTools == Init /\ [][ToolNext]_vars

SpecFunctions == Init /\ [][FnNext]_vars

SpecGate == Init /\ [][GateNext]_vars

SpecWorkflow == Init /\ [][WfNext]_vars

SpecResearch == Init /\ [][ResearchNext]_vars

SpecBlog == Init /\ [][BlogNext]_vars

SpecHelpers == Init /\ [][ChkNext]_vars

SpecCoordinator == Init /\ [][CoordNext]_vars

====
